---- MODULE Spec2Model ----
(***************************************************************************)
(* Model of the API request router of cht-core (the express application   *)
(* built in src/webapp/src/js/enketo/widgets/rdtoolkit-provisioning.js,   *)
(* lines 135-894).  One request walks the route table in registration     *)
(* order; every middleware of a route is one action.                      *)
(***************************************************************************)
EXTENDS Integers, Sequences, FiniteSets, TLC

\* ------------------------------------------------------------------ bounds
\* number of distinct documents a request may name (bulk batch size)
MaxDocs == 2

Docs == 1..MaxDocs

\* number of chunks the backing store sends on one change-feed connection
MaxChunks == 3

\* number of entries the purge log may hold
MaxPurges == 2

\* number of keys of a bulk read
MaxKeys == 3

\* number of facilities of a hierarchy
MaxFacilities == 2

\* number of calls made to the ValidationService
MaxCalls == 3

\* number of calls made to the e2e settings helper
MaxOps == 3

\* number of grunt tasks run on a checkout
MaxRuns == 3

Facilities == 1..MaxFacilities

\* ------------------------------------------------------- program constants
\* environment.db and environment.ddoc as used by routePrefix / appPrefix
EnvDb == "medic"
EnvDdoc == "medic"
MetaDb == "medic-user-u1-meta"

Methods == {"GET", "POST", "PUT", "DELETE", "HEAD"}
WriteMethods == {"POST", "PUT", "DELETE"}
AllMethods == Methods

\* user classes carried by the session: an online user, an offline user, or
\* no session at all (req.userCtx undefined, see line 469)
Users == {"online", "offline", "none"}

\* adminAppPrefix, as a list of path segments
AdminAppPrefix == <<EnvDb, "_design", "medic-admin", "_rewrite">>
\* appPrefix, as a list of path segments
AppPrefix == <<EnvDb, "_design", EnvDdoc, "_rewrite">>

\* ------------------------------------------------------------------- paths
\* A url is the sequence of its path segments; a trailing slash is a final
\* empty segment ("/medic/" is <<"medic", "">>).
SamplePaths ==
  { <<EnvDb, "_design", "x", "_list", "y">>,
    <<EnvDb, "_design", "x", "_show", "y">>,
    <<EnvDb, "_design", "x", "_view", "y">>,
    <<EnvDb, "_find">>,
    <<EnvDb, "_find", "x">>,
    <<EnvDb, "_explain">>,
    <<EnvDb, "_index">>,
    <<EnvDb, "_ensure_full_commit">>,
    <<EnvDb, "_security">>,
    <<EnvDb, "_purge">>,
    <<"_session">>,
    <<EnvDb, "_local", "c1">>,
    <<EnvDb, "_revs_diff">>,
    <<EnvDb, "_missing_revs">>,
    <<EnvDb, "_changes">>,
    <<EnvDb, "_all_docs">>,
    <<EnvDb, "_bulk_get">>,
    <<EnvDb, "_bulk_docs">>,
    <<EnvDb, "_bulk_docs", "x">>,
    <<EnvDb>>,
    <<EnvDb, "">>,
    <<EnvDb, "doc">>,
    <<EnvDb, "doc", "att">>,
    <<EnvDb, "_compact">>,
    <<EnvDb, "_design", EnvDdoc>>,
    <<EnvDb, "_design", EnvDdoc, "_rewrite">>,
    <<EnvDb, "_design", EnvDdoc, "_rewrite", "">>,
    <<EnvDb, "_design", EnvDdoc, "_rewrite", "js", "app.js">>,
    <<EnvDb, "_design", EnvDdoc, "_rewrite", "static", "x.js">>,
    <<"_utils", EnvDb, "_design", EnvDdoc, "_rewrite", "x">>,
    <<EnvDb, "_design", EnvDdoc, "_rewrite", "update_settings", EnvDdoc>>,
    <<EnvDb, "login">>,
    <<MetaDb, "_changes">>,
    <<MetaDb, "">>,
    <<MetaDb, "doc">>,
    <<"admin", "x">>,
    <<"dbinfo">>,
    <<"_users", "u1">>,
    <<"api", "v1", "hydrate">>,
    <<"purging", "changes">> }

\* the part of a url after routePrefix ('/+' + environment.db + '/+')
Rest(p) == SubSeq(p, 2, Len(p))

\* routePrefix matches: the db name followed by at least one slash
UnderDb(p) == Len(p) >= 2 /\ p[1] = EnvDb

HasPrefix(p, pre) ==
  Len(p) >= Len(pre) /\ SubSeq(p, 1, Len(pre)) = pre

\* '_design/*/<kind>/*' after routePrefix
DesignFn(p, kind) ==
  /\ UnderDb(p)
  /\ p[2] = "_design"
  /\ \E i \in 4..Len(p) : p[i] = kind /\ i < Len(p)

\* '<name>(/*)?' after routePrefix
NameOpt(p, name) == UnderDb(p) /\ p[2] = name

\* '<name>' after routePrefix, strict routing: nothing may follow
NameExact(p, name) == p = <<EnvDb, name>>

\* ':docId/{0,}' after routePrefix
IsDocPath(p) ==
  /\ UnderDb(p)
  /\ p[2] # ""
  /\ \/ Len(p) = 2
     \/ Len(p) = 3 /\ p[3] = ""

\* ':docId/+:attachmentId*' after routePrefix
IsAttachmentPath(p) ==
  UnderDb(p) /\ Len(p) >= 3 /\ p[2] # "" /\ p[3] # ""

\* '_design/+:ddocId*' after routePrefix
IsDdocPath(p) ==
  UnderDb(p) /\ Len(p) >= 3 /\ p[2] = "_design" /\ p[3] # ""

\* express path matching of the patterns used by the route table
Matches(pat, p) ==
  CASE pat = "*" -> TRUE
    [] pat = "/dbinfo" -> p = <<"dbinfo">>
    [] pat = "appPrefix" -> p = AppPrefix \o <<"">>
    [] pat = "/+medic(/*)?" -> Len(p) >= 1 /\ p[1] = "medic"
    [] pat = "/+admin(/*)?" -> Len(p) >= 1 /\ p[1] = "admin"
    [] pat = "login" -> p = <<EnvDb, "login">>
    [] pat = "_design/*/_list/*" -> DesignFn(p, "_list")
    [] pat = "_design/*/_show/*" -> DesignFn(p, "_show")
    [] pat = "_design/*/_view/*" -> DesignFn(p, "_view")
    [] pat = "_find(/*)?" -> NameOpt(p, "_find")
    [] pat = "_explain(/*)?" -> NameOpt(p, "_explain")
    [] pat = "_index(/*)?" -> NameOpt(p, "_index")
    [] pat = "_ensure_full_commit(/*)?" -> NameOpt(p, "_ensure_full_commit")
    [] pat = "_security(/*)?" -> NameOpt(p, "_security")
    [] pat = "_purge(/*)?" -> NameOpt(p, "_purge")
    [] pat = "/_session" -> p = <<"_session">>
    [] pat = "_local/*" -> UnderDb(p) /\ Len(p) >= 3 /\ p[2] = "_local"
    [] pat = "_revs_diff" -> NameExact(p, "_revs_diff")
    [] pat = "_missing_revs" -> NameExact(p, "_missing_revs")
    [] pat = "_find" -> NameExact(p, "_find")
    [] pat = "_explain" -> NameExact(p, "_explain")
    [] pat = "/api/v1/hydrate" -> p = <<"api", "v1", "hydrate">>
    [] pat = "update_settings" ->
         p = AppPrefix \o <<"update_settings", EnvDdoc>>
    [] pat = "/purging/changes" -> p = <<"purging", "changes">>
    [] pat = "_changes(/*)?" -> NameOpt(p, "_changes")
    [] pat = "_all_docs(/*)?" -> NameOpt(p, "_all_docs")
    [] pat = "_bulk_get(/*)?" -> NameOpt(p, "_bulk_get")
    [] pat = "_bulk_docs(/*)?" -> NameOpt(p, "_bulk_docs")
    [] pat = "ddocPath" -> IsDdocPath(p)
    [] pat = "docPath" -> IsDocPath(p)
    [] pat = "dbRoot" -> p = <<EnvDb>> \/ p = <<EnvDb, "">>
    [] pat = "attachmentPath" -> IsAttachmentPath(p)
    [] pat = "/+medic-user-*-meta(/*)?" -> Len(p) >= 1 /\ p[1] = MetaDb
    [] pat = "meta/_changes" -> p = <<MetaDb, "_changes">>
    [] pat = "meta/" -> p = <<MetaDb, "">>
    [] pat = "meta/*" -> Len(p) >= 2 /\ p[1] = MetaDb
    [] pat = "appPrefixSansSlash" -> p = AppPrefix
    [] pat = "pathPrefixSansSlash" -> p = <<EnvDb>>
    [] pat = "appPrefix*" -> HasPrefix(p, AppPrefix) /\ Len(p) > Len(AppPrefix)
    [] pat = "editPath" -> UnderDb(p)
    [] OTHER -> FALSE

\* ------------------------------------------------------------- route table
ALL == Methods
\* app.get also answers HEAD requests
GET == {"GET", "HEAD"}
POST == {"POST"}
PUT == {"PUT"}
DELETE == {"DELETE"}

Route(line, methods, pat, stack, class) ==
  [line |-> line, methods |-> methods, pat |-> pat, stack |-> stack,
   class |-> class]

OnlineOnlyEndpoints ==
  << "_design/*/_list/*", "_design/*/_show/*", "_design/*/_view/*",
     "_find(/*)?", "_explain(/*)?", "_index(/*)?",
     "_ensure_full_commit(/*)?", "_security(/*)?", "_purge(/*)?" >>

\* UNAUDITED_ENDPOINTS with one more online-only pattern listed again
UnauditedEndpointsWithSecurity ==
  << "_local/*", "_revs_diff", "_missing_revs",
     "_design/*/_list/*", "_design/*/_show/*", "_design/*/_view/*",
     "_find", "_explain", "_security(/*)?" >>

UnauditedEndpoints ==
  << "_local/*", "_revs_diff", "_missing_revs",
     "_design/*/_list/*", "_design/*/_show/*", "_design/*/_view/*",
     "_find", "_explain" >>

\* ONLINE_ONLY_ENDPOINTS.forEach(url => app.all(routePrefix + url, firewall))
OnlineOnlyRoutes ==
  [i \in 1..Len(OnlineOnlyEndpoints) |->
     Route(401, ALL, OnlineOnlyEndpoints[i], <<"offlineUserFirewall">>,
           "OnlineOnly")]

\* the UNAUDITED_ENDPOINTS routes with the offline-user firewall in front of
\* the proxy
UnauditedRoutesFirewalled ==
  [i \in 1..Len(UnauditedEndpoints) |->
     Route(436, ALL, UnauditedEndpoints[i],
           <<"offlineUserFirewall", "proxyWeb">>, "AlwaysProxy")]

\* UNAUDITED_ENDPOINTS.forEach(url => app.all(url, proxy.web))
UnauditedRoutes ==
  [i \in 1..Len(UnauditedEndpoints) |->
     Route(436, ALL, UnauditedEndpoints[i], <<"proxyWeb">>, "AlwaysProxy")]

\* the audited stack with infodoc.mark placed after the authorization step
AuditedStackMarkLate ==
  << "jsonParser", "onlineUserPassThrough", "jsonQueryParser",
     "dbDocRequest", "infodocMark", "setAuthorized" >>

AuditedStack ==
  << "jsonParser", "infodocMark", "onlineUserPassThrough", "jsonQueryParser",
     "dbDocRequest", "setAuthorized" >>

UnmarkedAuditedStack ==
  << "onlineUserPassThrough", "jsonQueryParser", "dbDocRequest",
     "setAuthorized" >>

\* the _bulk_docs stack with setAuthorized placed before bulkDocs.request
BulkDocsStackFlagFirst ==
  << "jsonParser", "infodocMark", "onlineUserPassThrough", "jsonQueryParser",
     "setAuthorized", "bulkDocsRequest" >>

\* the _bulk_docs stack without bulkDocs.request
BulkDocsStackNoFilter ==
  << "jsonParser", "infodocMark", "onlineUserPassThrough", "jsonQueryParser",
     "setAuthorized" >>

BulkDocsStack ==
  << "jsonParser", "infodocMark", "onlineUserPassThrough", "jsonQueryParser",
     "bulkDocsRequest", "setAuthorized" >>

EarlyRoutes ==
  << Route(336, GET, "/dbinfo", <<"dbinfo">>, "Other"),
     Route(341, GET, "appPrefix", <<"local">>, "Other"),
     Route(346, ALL, "/+medic(/*)?", <<"medicRewrite">>, "Other"),
     Route(353, ALL, "/+admin(/*)?", <<"adminRewrite">>, "Other"),
     Route(377, GET, "login", <<"local">>, "Other"),
     Route(379, POST, "login",
           <<"jsonParser", "handleJsonRequest", "local">>, "Other"),
     Route(384, ALL, "*", <<"getUserCtx">>, "Other") >>

SessionRoutes ==
  << Route(405, ALL, "/_session", <<"session">>, "AlwaysProxy") >>

ApiRoutes ==
  << Route(567, GET, "/api/v1/hydrate",
           <<"offlineUserFirewall", "jsonQueryParser", "local">>,
           "OnlineOnly"),
     Route(568, POST, "/api/v1/hydrate",
           <<"offlineUserFirewall", "jsonParser", "jsonQueryParser",
             "local">>, "OnlineOnly"),
     Route(578, PUT, "update_settings",
           <<"jsonParser", "handleJsonRequest", "local">>, "Other"),
     Route(584, GET, "/purging/changes",
           <<"onlineUserPassThrough", "local">>, "Other") >>

\* the filtered routes with the _bulk_get route missing its onlineUserProxy
FilteredRoutesNoOnlineProxy ==
  << Route(601, GET, "_changes(/*)?",
           <<"onlineUserChangesProxy", "changesHandler">>, "Filtered"),
     Route(606, POST, "_changes(/*)?",
           <<"onlineUserChangesProxy", "jsonParser", "changesHandler">>,
           "Filtered"),
     Route(617, GET, "_all_docs(/*)?",
           <<"onlineUserProxy", "jsonQueryParser", "allDocsHandler">>,
           "Filtered"),
     Route(618, POST, "_all_docs(/*)?",
           <<"onlineUserProxy", "jsonParser", "jsonQueryParser",
             "allDocsHandler">>, "Filtered"),
     Route(628, POST, "_bulk_get(/*)?",
           <<"jsonParser", "jsonQueryParser", "bulkGetHandler">>,
           "Filtered") >>

FilteredRoutes ==
  << Route(601, GET, "_changes(/*)?",
           <<"onlineUserChangesProxy", "changesHandler">>, "Filtered"),
     Route(606, POST, "_changes(/*)?",
           <<"onlineUserChangesProxy", "jsonParser", "changesHandler">>,
           "Filtered"),
     Route(617, GET, "_all_docs(/*)?",
           <<"onlineUserProxy", "jsonQueryParser", "allDocsHandler">>,
           "Filtered"),
     Route(618, POST, "_all_docs(/*)?",
           <<"onlineUserProxy", "jsonParser", "jsonQueryParser",
             "allDocsHandler">>, "Filtered"),
     Route(628, POST, "_bulk_get(/*)?",
           <<"onlineUserProxy", "jsonParser", "jsonQueryParser",
             "bulkGetHandler">>, "Filtered") >>

DocRoutes ==
  << Route(638, POST, "_bulk_docs(/*)?", BulkDocsStack, "WriteAudited"),
     Route(655, GET, "ddocPath",
           <<"onlineUserProxy", "jsonQueryParser", "requestDdoc",
             "setAuthorized">>, "Filtered"),
     Route(663, GET, "docPath",
           <<"onlineUserProxy", "jsonQueryParser", "dbDocRequest">>,
           "Filtered"),
     Route(669, POST, "dbRoot", AuditedStack, "WriteAudited"),
     Route(678, PUT, "docPath", AuditedStack, "WriteAudited"),
     Route(687, DELETE, "docPath", UnmarkedAuditedStack, "WriteAudited"),
     Route(694, ALL, "attachmentPath", UnmarkedAuditedStack,
           "WriteAudited") >>

MetaRoutes ==
  << Route(704, ALL, "/+medic-user-*-meta(/*)?", <<"metaRewrite">>, "Other"),
     Route(712, GET, "meta/_changes", <<"proxyForChangesWeb">>,
           "AlwaysProxy"),
     Route(717, PUT, "meta/", <<"local">>, "Other"),
     Route(719, ALL, "meta/*", <<"setAuthorized">>, "AlwaysProxy") >>

\* the tail of the table with the global firewall registered after the
\* can_edit write routes
TailRoutesFirewallAfterEdit ==
  << Route(825, GET, "appPrefixSansSlash", <<"local">>, "Other"),
     Route(825, GET, "pathPrefixSansSlash", <<"local">>, "Other"),
     Route(831, ALL, "appPrefix*", <<"setAuthorized">>, "AlwaysProxy"),
     Route(854, PUT, "editPath", <<"canEdit">>, "Other"),
     Route(855, POST, "editPath", <<"canEdit">>, "Other"),
     Route(856, DELETE, "editPath", <<"canEdit">>, "Other"),
     Route(836, ALL, "*", <<"offlineUserFirewall">>, "Other"),
     Route(858, ALL, "*", <<"proxyWeb">>, "Other") >>

\* the tail of the table without the can_edit write routes
TailRoutesNoCanEdit ==
  << Route(825, GET, "appPrefixSansSlash", <<"local">>, "Other"),
     Route(825, GET, "pathPrefixSansSlash", <<"local">>, "Other"),
     Route(831, ALL, "appPrefix*", <<"setAuthorized">>, "AlwaysProxy"),
     Route(836, ALL, "*", <<"offlineUserFirewall">>, "Other"),
     Route(858, ALL, "*", <<"proxyWeb">>, "Other") >>

TailRoutes ==
  << Route(825, GET, "appPrefixSansSlash", <<"local">>, "Other"),
     Route(825, GET, "pathPrefixSansSlash", <<"local">>, "Other"),
     Route(831, ALL, "appPrefix*", <<"setAuthorized">>, "AlwaysProxy"),
     Route(836, ALL, "*", <<"offlineUserFirewall">>, "Other"),
     Route(854, PUT, "editPath", <<"canEdit">>, "Other"),
     Route(855, POST, "editPath", <<"canEdit">>, "Other"),
     Route(856, DELETE, "editPath", <<"canEdit">>, "Other"),
     Route(858, ALL, "*", <<"proxyWeb">>, "Other") >>

\* the router with the UNAUDITED_ENDPOINTS proxies registered before the
\* ONLINE_ONLY_ENDPOINTS firewall
RoutesUnauditedFirst ==
  EarlyRoutes \o UnauditedRoutes \o SessionRoutes \o OnlineOnlyRoutes
    \o ApiRoutes \o FilteredRoutes \o DocRoutes \o MetaRoutes \o TailRoutes

\* the express router: every layer, in registration order
Routes ==
  EarlyRoutes \o OnlineOnlyRoutes \o SessionRoutes \o UnauditedRoutes
    \o ApiRoutes \o FilteredRoutes \o DocRoutes \o MetaRoutes \o TailRoutes

NumRoutes == Len(Routes)

RouteMatches(j, m, p) ==
  m \in Routes[j].methods /\ Matches(Routes[j].pat, p)

\* express's router: the first layer after layer i that matches the request
NextMatch(i, m, p) ==
  CHOOSE j \in (i + 1)..NumRoutes :
    /\ RouteMatches(j, m, p)
    /\ \A k \in (i + 1)..(j - 1) : ~RouteMatches(k, m, p)

\* ------------------------------------------------------------------- state
VARIABLES
  method,      \* req.method
  url,         \* req.url, as path segments (rewritten by lines 346-356)
  session,     \* what the session of the request's credentials resolves to
  userCtx,     \* req.userCtx: "unset" until getUserCtx has run
  docs,        \* the documents the request names (body docs or :docId)
  visible,     \* the documents the requesting user may see
  cookie,      \* cookie.get(req, 'userCtx'): the userCtx cookie of the request
  bodyDocs,    \* req.body.docs as it will be written to the backend
  authorized,  \* req.authorized
  marked,      \* the request was stamped by infodoc.mark
  intercept,   \* res.interceptResponse is set
  ri,          \* index in Routes of the layer handling the request
  hi,          \* index of the current middleware in that layer's stack
  outcome,     \* how the request was answered, "pending" while in the router
  via,         \* the proxy the request was forwarded with, "none" if not
  forwarded,   \* the documents written to the backing store
  responded,   \* the backend's response has been received
  audit,       \* documents whose AuditRecord was updated
  cookieSet,   \* the userCtx cookie was set again on the response
  check,       \* what auth.check(req, 'can_edit') resolved to, "none" before
  log,         \* the middleware run so far: <<route line, name>>
  feed,        \* the change-feed response: "none", "open" or "ended"
  compress,    \* the compression middleware compresses this response
  received,    \* the chunks received from upstream, in order of arrival
  zbuf,        \* the chunks written and still inside the compression stream
  flushReq,    \* a flush of the compression stream is pending
  flushes,     \* number of res.flush() calls
  delivered,   \* the chunks sent to the client, in order
  lastKnown,   \* the documents of the client's last-known visible set
  pending,     \* the documents changed upstream since the client's last read
  purgeLog,    \* the PurgeEntries of the user, in purgeSequence order
  everVisible, \* the documents that were at some time visible to the user
  purgeCalls,  \* the last two purgesSince calls of the user, the latest last
  keys,        \* the key list of a bulk read
  rows,        \* the rows the backing store returned for the keys
  answer,      \* the rows returned to the client
  hier,        \* the facility hierarchy, the user's facilityId and own documents
  trav,        \* the traversal of the Visibility Resolver
  settings,    \* what settingsService.get resolves to
  svc,         \* the ValidationService and the calls its collaborators saw
  calls,       \* the calls made to the ValidationService, with what they returned
  contentType, \* req.headers['content-type'], "none" when missing
  reply,       \* status and headers of the response sent to the client
  e2e,         \* the e2e settings helper, the server's settings and the calls
  build,       \* webapp/node_modules, its backup and grunt's task queue
  hook         \* the proxyForAuth response: the buffered body, the calls of
               \* res.interceptResponse

vars ==
  << method, url, session, userCtx, docs, visible, cookie, bodyDocs,
     authorized, marked, intercept, ri, hi, outcome, via, forwarded,
     responded, audit, cookieSet, check, log, feed, compress, received,
     zbuf, flushReq, flushes, delivered, lastKnown, pending, purgeLog,
     everVisible, purgeCalls, keys, rows, answer, hier, trav,
     settings, svc, calls, contentType, reply, e2e, hook, build >>

\* no response has come from proxyForAuth: let body = Buffer.from('')
NoHook == [phase |-> "none", body |-> << >>, calls |-> << >>]

\* the settings as the server has them: the updates put so far
InitialSettings == << >>

\* the e2e helper as loaded: var originalSettings; no call made yet
NewHelper ==
  [original |-> [kind |-> "undefined", value |-> InitialSettings],
   server |-> InitialSettings,
   ops |-> << >>,
   requests |-> << >>,
   stored |-> FALSE,
   storedBy |-> 0,
   accepted |-> 0,
   baseline |-> InitialSettings]

\* the modules of webapp/node_modules the build patches, backs up or restores
Modules ==
  {"bootstrap-daterangepicker", "enketo-core", "font-awesome",
   "messageformat", "moment", "pouchdb-browser"}

\* copy['libraries-to-patch'].src
LibrariesToPatch ==
  {"bootstrap-daterangepicker", "enketo-core", "font-awesome",
   "messageformat", "moment"}

\* exec['undo-patches']: modulesToPatch
ModulesToPatch ==
  {"bootstrap-daterangepicker", "enketo-core", "font-awesome", "moment",
   "pouchdb-browser"}

\* exec['apply-patches']: the modules of the patches, in the order of the
\* command (the two patches of enketo-core follow each other)
Patches ==
  <<"bootstrap-daterangepicker", "font-awesome", "moment", "enketo-core",
    "messageformat", "pouchdb-browser">>

\* a fresh checkout: nothing installed, no backup, no task running
NoBuild ==
  [modules |-> [m \in Modules |-> "absent"],
   backup |-> [m \in Modules |-> "absent"],
   queue |-> << >>,
   task |-> "none",
   history |-> << >>]

\* the tools beside the server are not in use
ToolsIdle == e2e = NewHelper /\ build = NoBuild

\* no response was sent yet
NoLocation == [path |-> << >>, redirect |-> << >>]

NoReply ==
  [status |-> 0, location |-> NoLocation, wwwAuthenticate |-> "none",
   upstream |-> 0, human |-> FALSE]

\* the state of the ValidationService and of its collaborators
valVars == << settings, svc, calls >>

\* the state of the Visibility Resolver and of the ValidationService
others == << hier, trav, valVars, e2e, build >>

\* a ValidationService just constructed: not inited, its collaborators not
\* called yet
NewService ==
  [inited |-> FALSE, settingsGet |-> << >>, init |-> << >>, validate |-> << >>]

ValidationIdle ==
  /\ settings = "some settings"
  /\ svc = NewService
  /\ calls = << >>

\* no hierarchy is being traversed
NoTraversal ==
  [phase |-> "idle", stack |-> << >>, visited |-> {}, set |-> {},
   descents |-> 0, pops |-> 0]

TraversalIdle ==
  /\ hier = [children |-> [f \in Facilities |-> {}], root |-> 1, own |-> {}]
  /\ trav = NoTraversal

OthersIdle == TraversalIdle /\ ValidationIdle /\ ToolsIdle

\* the state of a bulk read
bulkVars == << keys, rows, answer >>

\* the state of the components beside the router
aside == << pending, purgeLog, everVisible, purgeCalls, others >>

\* ... as long as only the router runs
AsideIdle ==
  /\ pending = << >>
  /\ purgeLog = << >>
  /\ everVisible = {}
  /\ purgeCalls = << >>
  /\ OthersIdle

\* the state of a change-feed response
feedVars == << feed, compress, received, zbuf, flushReq, flushes, delivered >>

\* inputs of the request, never changed by the router
inputs == << method, session, docs, visible, cookie, lastKnown, contentType >>

\* what cookie.get(req, 'userCtx') gives: undefined without the cookie, else
\* its value: empty, a percent-encoding, or a text that is none ('%')
Cookies == {"undefined", "empty", "encoded", "malformed"}

\* the Content-Type headers of a request: the exact JSON type, a JSON type
\* with a parameter, another type, or none
ContentTypes ==
  {"application/json", "application/json; charset=utf-8", "text/plain",
   "none"}

\* the request matches a route registered with handleJsonRequest
OnJsonRoute(m, p) ==
  \E j \in 1..Len(Routes) :
    /\ RouteMatches(j, m, p)
    /\ \E k \in 1..Len(Routes[j].stack) :
         Routes[j].stack[k] = "handleJsonRequest"

Cur == Routes[ri].stack[hi]

At(h) == outcome = "pending" /\ Cur = h

Logged == log' = Append(log, <<Routes[ri].line, Cur>>)

\* a bulk request names any non-empty batch, every other request one document
BatchesOf(p) ==
  IF NameOpt(p, "_bulk_docs") THEN SUBSET Docs \ {{}}
  ELSE {{d} : d \in Docs}

\* a request as it enters the router
InitRequest ==
  /\ method \in Methods
  /\ url \in SamplePaths
  /\ session \in Users
  /\ userCtx = "unset"
  /\ docs \in BatchesOf(url)
  /\ visible \in SUBSET Docs
  /\ cookie \in (IF url = <<"_session">> THEN Cookies ELSE {"undefined"})
  /\ bodyDocs = docs
  /\ authorized = FALSE
  /\ marked = FALSE
  /\ intercept = FALSE
  /\ ri = NextMatch(0, method, url)
  /\ hi = 1
  /\ outcome = "pending"
  /\ via = "none"
  /\ forwarded = {}
  /\ responded = FALSE
  /\ audit = {}
  /\ cookieSet = FALSE
  /\ check = "none"
  /\ log = << >>
  /\ feed = "none"
  /\ compress = FALSE
  /\ received = << >>
  /\ zbuf = << >>
  /\ flushReq = FALSE
  /\ flushes = 0
  /\ delivered = << >>
  /\ lastKnown \in (IF NameOpt(url, "_changes") /\ session = "offline"
                      THEN SUBSET Docs ELSE {{}})
  /\ AsideIdle
  /\ rows = << >>
  /\ answer = << >>
  /\ contentType \in (IF OnJsonRoute(method, url)
                        THEN ContentTypes ELSE {"application/json"})
  /\ reply = NoReply
  /\ hook = NoHook

\* the requests of the router; the key list of a bulk read is left out
Init == InitRequest /\ keys = << >>

\* next(): the next middleware of the stack, else the next matching layer
GoNext(newUrl) ==
  /\ IF hi < Len(Routes[ri].stack)
       THEN ri' = ri /\ hi' = hi + 1
       ELSE ri' = NextMatch(ri, method, newUrl) /\ hi' = 1
  /\ outcome' = "pending"
  /\ via' = via
  /\ forwarded' = forwarded

\* next('route'): skip the rest of this layer's stack
GoNextRoute ==
  /\ ri' = NextMatch(ri, method, url)
  /\ hi' = 1
  /\ outcome' = "pending"
  /\ via' = via
  /\ forwarded' = forwarded

\* the request is answered by the API itself
Respond(o) ==
  /\ outcome' = o
  /\ UNCHANGED <<ri, hi, via, forwarded>>

\* <proxy>.web(req, res): the request goes to the backing store
Forward(proxyName) ==
  /\ outcome' = "proxied"
  /\ via' = proxyName
  /\ forwarded' = IF method \in WriteMethods THEN bodyDocs ELSE {}
  /\ UNCHANGED <<ri, hi>>

\* -------------------------------------------------------------- middleware
\* what no middleware of the router changes
FrameButReply ==
  UNCHANGED <<inputs, responded, audit, feedVars, aside, bulkVars, hook>>

Frame == FrameButReply /\ UNCHANGED reply

\* what only canEdit changes
NoCheck == UNCHANGED check

\* app.get('/dbinfo'): req.url = '/'; proxy.web(req, res)
DbInfo ==
  /\ At("dbinfo")
  /\ url' = << >>
  /\ Forward("proxy")
  /\ Logged /\ Frame /\ NoCheck
  /\ UNCHANGED <<userCtx, bodyDocs, authorized, marked, intercept, cookieSet>>

\* app.all('/+medic(/*)?'): environment.db is 'medic', the url is kept
MedicRewrite ==
  /\ At("medicRewrite")
  /\ url' = (IF EnvDb # "medic" THEN <<EnvDb>> \o Tail(url) ELSE url)
  /\ GoNext(url')
  /\ Logged /\ Frame /\ NoCheck
  /\ UNCHANGED <<userCtx, bodyDocs, authorized, marked, intercept, cookieSet>>

\* app.all('/+admin(/*)?'): '/admin/' becomes adminAppPrefix
AdminRewrite ==
  /\ At("adminRewrite")
  /\ url' = AdminAppPrefix \o (IF Len(url) > 1 THEN Tail(url) ELSE <<"">>)
  /\ GoNext(url')
  /\ Logged /\ Frame /\ NoCheck
  /\ UNCHANGED <<userCtx, bodyDocs, authorized, marked, intercept, cookieSet>>

\* app.all('/+medic-user-*-meta(/*)?'): as MedicRewrite, for the meta db
MetaRewrite ==
  /\ At("metaRewrite")
  /\ url' = url
  /\ GoNext(url')
  /\ Logged /\ Frame /\ NoCheck
  /\ UNCHANGED <<userCtx, bodyDocs, authorized, marked, intercept, cookieSet>>

\* authorization.getUserCtx: saves the session's user as req.userCtx
GetUserCtx ==
  /\ At("getUserCtx")
  /\ userCtx' = session
  /\ GoNext(url)
  /\ Logged /\ Frame /\ NoCheck
  /\ UNCHANGED <<url, bodyDocs, authorized, marked, intercept, cookieSet>>

\* authorization.offlineUserFirewall: blocks the requests of offline users
\* that are not authorized; everything else goes on
FirewallBlocks == userCtx = "offline" /\ ~authorized

OfflineUserFirewall ==
  /\ At("offlineUserFirewall")
  /\ IF FirewallBlocks THEN Respond("forbidden") ELSE GoNext(url)
  /\ Logged /\ Frame /\ NoCheck
  /\ UNCHANGED <<url, userCtx, bodyDocs, authorized, marked, intercept,
                 cookieSet>>

\* if (given): undefined and the empty string are falsy
Given(c) == c \notin {"undefined", "empty"}

\* decodeURIComponent(given) throws a URIError on a text that is no
\* percent-encoding
Decodes(c) == c # "malformed"

\* app.all('/_session'): refresh the userCtx cookie, then proxy.web; a
\* handler that throws is answered by the router with a server error
Session ==
  /\ At("session")
  /\ IF Given(cookie) /\ ~Decodes(cookie)
       THEN /\ Respond("error")
            /\ reply' = [reply EXCEPT !.status = 500]
            /\ cookieSet' = FALSE
       ELSE /\ cookieSet' = Given(cookie)
            /\ Forward("proxy")
            /\ UNCHANGED reply
  /\ Logged /\ FrameButReply /\ NoCheck
  /\ UNCHANGED <<url, userCtx, bodyDocs, authorized, marked, intercept>>

\* function(req, res) { proxy.web(req, res); }
ProxyWeb ==
  /\ At("proxyWeb")
  /\ Forward("proxy")
  /\ Logged /\ Frame /\ NoCheck
  /\ UNCHANGED <<url, userCtx, bodyDocs, authorized, marked, intercept,
                 cookieSet>>

\* (req, res) => proxyForChanges.web(req, res)
ProxyForChangesWeb ==
  /\ At("proxyForChangesWeb")
  /\ Forward("proxyForChanges")
  /\ Logged /\ Frame /\ NoCheck
  /\ UNCHANGED <<url, userCtx, bodyDocs, authorized, marked, intercept,
                 cookieSet>>

\* the media types bodyParser.json parses: application/json, with or
\* without parameters
IsJsonType(ct) ==
  ct \in {"application/json", "application/json; charset=utf-8"}

\* what parsing a body comes to: 200 stands for a parsed body, 400 for one
\* that is no JSON, 413 for one over the limit of 32mb
ParseResults == {200, 400, 413}

\* bodyParser.json({ limit: '32mb' }): a body of another media type is left
\* alone; a body that does not parse is answered with the parser's error
JsonParser ==
  /\ At("jsonParser")
  /\ IF IsJsonType(contentType)
       THEN \E parsed \in ParseResults :
              IF parsed = 200
                THEN GoNext(url) /\ UNCHANGED reply
                ELSE /\ Respond("badRequest")
                     /\ reply' = [reply EXCEPT !.status = parsed]
       ELSE GoNext(url) /\ UNCHANGED reply
  /\ Logged /\ FrameButReply /\ NoCheck
  /\ UNCHANGED <<url, userCtx, bodyDocs, authorized, marked, intercept,
                 cookieSet>>

\* middleware/query-parser json: parses the query string, then next()
JsonQueryParser ==
  /\ At("jsonQueryParser")
  /\ GoNext(url)
  /\ Logged /\ Frame /\ NoCheck
  /\ UNCHANGED <<url, userCtx, bodyDocs, authorized, marked, intercept,
                 cookieSet>>

\* a check that takes every JSON media type
JsonContentTypeLenient(ct) == IsJsonType(ct)

\* !(!contentType || contentType !== 'application/json')
JsonContentType(ct) == ~(ct = "none" \/ ct # "application/json")

\* handleJsonRequest: only Content-Type application/json reaches the
\* callback, any other is answered with code 400
HandleJsonRequest ==
  /\ At("handleJsonRequest")
  /\ IF JsonContentType(contentType)
       THEN GoNext(url) /\ UNCHANGED reply
       ELSE /\ Respond("badRequest")
            /\ reply' = [reply EXCEPT !.status = 400]
  /\ Logged /\ FrameButReply /\ NoCheck
  /\ UNCHANGED <<url, userCtx, bodyDocs, authorized, marked, intercept,
                 cookieSet>>

\* a controller that answers the request without the proxies
Local ==
  /\ At("local")
  /\ Respond("local")
  /\ Logged /\ Frame /\ NoCheck
  /\ UNCHANGED <<url, userCtx, bodyDocs, authorized, marked, intercept,
                 cookieSet>>

\* authorization.onlineUserProxy: online users are proxied directly
OnlineUserProxyWith(name, proxyName) ==
  /\ At(name)
  /\ CASE userCtx = "online" -> Forward(proxyName)
       [] userCtx = "offline" -> GoNext(url)
       [] OTHER -> Respond("notLoggedIn")
  /\ Logged /\ Frame /\ NoCheck
  /\ UNCHANGED <<url, userCtx, bodyDocs, authorized, marked, intercept,
                 cookieSet>>

OnlineUserProxy == OnlineUserProxyWith("onlineUserProxy", "proxy")

OnlineUserChangesProxy ==
  OnlineUserProxyWith("onlineUserChangesProxy", "proxyForChanges")

\* authorization.onlineUserPassThrough: online user requests pass through
\* to the next route
OnlineUserPassThrough ==
  /\ At("onlineUserPassThrough")
  /\ CASE userCtx = "online" -> GoNextRoute
       [] userCtx = "offline" -> GoNext(url)
       [] OTHER -> Respond("notLoggedIn")
  /\ Logged /\ Frame /\ NoCheck
  /\ UNCHANGED <<url, userCtx, bodyDocs, authorized, marked, intercept,
                 cookieSet>>

\* infodoc.mark: stamps the request for the audit update of its response
InfodocMark ==
  /\ At("infodocMark")
  /\ marked' = TRUE
  /\ GoNext(url)
  /\ Logged /\ Frame /\ NoCheck
  /\ UNCHANGED <<url, userCtx, bodyDocs, authorized, intercept, cookieSet>>

\* the documents of a batch the offline user may write
AllowedDocs(batch, vis) == batch \cap vis

\* bulkDocs.request: the batch of an offline user is filtered, the response
\* is intercepted to fill in the forbidden stubs
BulkDocsRequest ==
  /\ At("bulkDocsRequest")
  /\ bodyDocs' = AllowedDocs(bodyDocs, visible)
  /\ intercept' = TRUE
  /\ GoNext(url)
  /\ Logged /\ Frame /\ NoCheck
  /\ UNCHANGED <<url, userCtx, authorized, marked, cookieSet>>

\* the document of a db-doc request is one the offline user may see
DocAllowed(batch, vis) == batch \subseteq vis

\* dbDocHandler.request: allowed offline requests pass through, the others
\* are answered Forbidden; an allowed read may be answered directly
DbDocRequest ==
  /\ At("dbDocRequest")
  /\ IF DocAllowed(docs, visible)
       THEN \/ GoNext(url)
            \/ method \in GET /\ Respond("local")
       ELSE Respond("forbidden")
  /\ Logged /\ Frame /\ NoCheck
  /\ UNCHANGED <<url, userCtx, bodyDocs, authorized, marked, intercept,
                 cookieSet>>

\* dbDocHandler.requestDdoc(environment.ddoc): vets the read of a design doc
RequestDdoc ==
  /\ At("requestDdoc")
  /\ \E allowed \in BOOLEAN :
       IF allowed THEN GoNext(url) ELSE Respond("forbidden")
  /\ Logged /\ Frame /\ NoCheck
  /\ UNCHANGED <<url, userCtx, bodyDocs, authorized, marked, intercept,
                 cookieSet>>

\* changesHandler, allDocsHandler, bulkGetHandler: the filtering handlers
FilterHandlers == {"changesHandler", "allDocsHandler", "bulkGetHandler"}

\* an upstream chunk of the change feed: a heartbeat, or the change event of
\* a document with its sequence number; stub marks a deletion stub
Heartbeat == [seq |-> 0, doc |-> 0, stub |-> FALSE]

ChangeEvent(n, d) == [seq |-> n, doc |-> d, stub |-> FALSE]

IsEvent(c) == c.seq # 0

Events(chunks) == SelectSeq(chunks, IsEvent)

\* what the backing store may send next: a heartbeat or the event of the
\* next sequence number
NextChunks(chunks) ==
  {Heartbeat} \cup {ChangeEvent(Len(Events(chunks)) + 1, d) : d \in Docs}

\* the Stream Filter on one chunk of the change feed: a heartbeat and the
\* event of a visible document are forwarded unchanged, the event of a
\* document of the client's last-known visible set that is no longer
\* visible becomes a deletion stub, any other event is suppressed
FilterChange(c, vis, known) ==
  CASE ~IsEvent(c) -> <<c>>
    [] c.doc \in vis -> <<c>>
    [] c.doc \in known -> <<[c EXCEPT !.stub = TRUE]>>
    [] OTHER -> << >>

\* the backing store's bulk read: one row per key, in the order of the keys,
\* the document or a not-found row
BackendRows(ks) ==
  {[i \in 1..Len(ks) |->
      [key |-> ks[i],
       kind |-> IF ks[i] \in stored THEN "doc" ELSE "notFound"]] :
     stored \in SUBSET Docs}

\* a filter that leaves the rows of invisible documents out
FilterBulkResultOmitting(rs, vis) ==
  LET Seen(r) == r.key \in vis IN SelectSeq(rs, Seen)

\* the Stream Filter on a bulk read: the row of a document the user may not
\* see is replaced by a forbidden stub, never omitted
FilterBulkResult(rs, vis) ==
  [i \in 1..Len(rs) |->
     IF rs[i].key \in vis THEN rs[i] ELSE [key |-> rs[i].key, kind |-> "forbidden"]]

FilterHandler ==
  /\ outcome = "pending"
  /\ Cur \in FilterHandlers
  /\ Respond("filtered")
  /\ feed' = (IF Cur = "changesHandler" THEN "filtering" ELSE feed)
  /\ UNCHANGED <<compress, received, zbuf, flushReq, flushes, delivered>>
  /\ IF Cur \in {"allDocsHandler", "bulkGetHandler"}
       THEN /\ rows' \in BackendRows(keys)
            /\ answer' = FilterBulkResult(rows', visible)
       ELSE UNCHANGED <<rows, answer>>
  /\ Logged /\ NoCheck
  /\ UNCHANGED <<inputs, responded, audit, aside, keys, reply, hook>>
  /\ UNCHANGED <<url, userCtx, bodyDocs, authorized, marked, intercept,
                 cookieSet>>

\* authorization.setAuthorized: adds the authorized flag, then next()
SetAuthorized ==
  /\ At("setAuthorized")
  /\ authorized' = TRUE
  /\ GoNext(url)
  /\ Logged /\ Frame /\ NoCheck
  /\ UNCHANGED <<url, userCtx, bodyDocs, marked, intercept, cookieSet>>

\* canEdit without the test of ctx.user
CanEditAnyContext ==
  /\ At("canEdit")
  /\ \E result \in {"user", "nouser", "rejected"} :
       /\ check' = result
       /\ IF result # "rejected" THEN Forward("proxyForAuth")
          ELSE Respond("notAuthorized")
  /\ Logged /\ Frame
  /\ UNCHANGED <<url, userCtx, bodyDocs, authorized, marked, intercept,
                 cookieSet>>

\* canEdit forwarding whatever auth.check resolved to
CanEditNoCheck ==
  /\ At("canEdit")
  /\ \E result \in {"user", "nouser", "rejected"} :
       /\ check' = result
       /\ Forward("proxyForAuth")
  /\ Logged /\ Frame
  /\ UNCHANGED <<url, userCtx, bodyDocs, authorized, marked, intercept,
                 cookieSet>>

\* canEdit: auth.check(req, 'can_edit'), then proxyForAuth.web
CanEdit ==
  /\ At("canEdit")
  /\ \E result \in {"user", "nouser", "rejected"} :
       /\ check' = result
       /\ IF result = "user" THEN Forward("proxyForAuth")
          ELSE Respond("notAuthorized")
  /\ Logged /\ Frame
  /\ UNCHANGED <<url, userCtx, bodyDocs, authorized, marked, intercept,
                 cookieSet>>

\* infodoc.update registered on the proxyRes of the plain proxy only
AuditedByPlainProxyOnly(proxyName) == proxyName = "proxy"

\* infodoc.update, on the proxyRes of proxy and of proxyForAuth
AuditedBy(proxyName) == proxyName \in {"proxy", "proxyForAuth"}

\* infodoc.update: the AuditRecords of the documents written by a stamped
\* request are updated when the backend accepted the write
InfodocUpdate(records, stamped, ok, written) ==
  IF stamped /\ ok THEN records \cup written ELSE records

\* compression's filter: whether the response is compressed is decided from
\* its headers, once
CompressionFilter == BOOLEAN

\* proxyForChanges.on('proxyRes'): the headers are copied and proxyRes is
\* piped to the response
ProxyResChanges ==
  /\ feed' = "open"
  /\ compress' \in CompressionFilter
  /\ UNCHANGED <<received, zbuf, flushReq, flushes, delivered>>

\* a write that puts the chunk in front of what was sent before
PipeWriteInFront(c) ==
  IF compress
    THEN [zbuf |-> <<c>> \o zbuf, delivered |-> delivered]
    ELSE [zbuf |-> zbuf, delivered |-> <<c>> \o delivered]

\* res.write(chunk) of proxyRes.pipe(res): a compressed response keeps the
\* chunk in the compression stream, any other sends it
PipeWrite(c) ==
  IF compress
    THEN [zbuf |-> Append(zbuf, c), delivered |-> delivered]
    ELSE [zbuf |-> zbuf, delivered |-> Append(delivered, c)]

\* res.flush(): asks the compression stream, when there is one, to flush
ResFlush == compress

\* ------------------------------------------------- the proxy responses
\* staticResources.test(req.url): /\/(templates|static)\//
StaticResources(p) ==
  \E i \in 1..(Len(p) - 1) : p[i] \in {"templates", "static"}

\* req.url.indexOf(appPrefix) !== -1: appPrefix, with its final slash, occurs
\* somewhere in the url
ContainsAppPrefix(p) ==
  \E i \in 1..Len(p) :
    /\ i + Len(AppPrefix) <= Len(p)
    /\ SubSeq(p, i, i + Len(AppPrefix) - 1) = AppPrefix

\* proxy.on('proxyReq'): writeHeaders(req, res, [], true) for the other
\* application files, writeHeaders(req, res) for everything else
RedirectHumans(p) == ~StaticResources(p) /\ ContainsAppPrefix(p)

\* encodeURIComponent(req.url): every slash becomes %2F
EncodeURIComponent(p) ==
  [i \in 1..(2 * Len(p)) |-> IF i % 2 = 1 THEN "%2F" ELSE p[i \div 2]]

\* pathPrefix + 'login?redirect=' + encodeURIComponent(req.url)
LoginRedirect(p) ==
  [path |-> <<EnvDb, "login">>, redirect |-> EncodeURIComponent(p)]

\* res.writeHead as replaced by writeHeaders
WriteHead(statusCode, human, redirectHumans, p) ==
  LET redirect == statusCode = 401 /\ human /\ redirectHumans IN
  [status |-> IF redirect THEN 302 ELSE statusCode,
   location |-> IF redirect THEN LoginRedirect(p) ELSE NoLocation,
   wwwAuthenticate |-> IF statusCode = 401 /\ ~human
                         THEN "MEDIC_BASIC_AUTH" ELSE "Cookie",
   upstream |-> statusCode,
   human |-> human]

\* copyProxyHeaders: res.statusCode = proxyRes.statusCode
CopyProxyHeaders(statusCode) ==
  [NoReply EXCEPT !.status = statusCode, !.upstream = statusCode]

\* the status of the backing store's response
UpstreamStatuses(ok) == IF ok THEN {200} ELSE {401, 500}

\* the backend answers a forwarded request
BackendResponse ==
  /\ outcome = "proxied"
  /\ ~responded
  /\ responded' = TRUE
  /\ \E ok \in BOOLEAN :
       /\ outcome' = (IF ok THEN "backendOk" ELSE "backendError")
       /\ audit' = (IF AuditedBy(via)
                      THEN InfodocUpdate(audit, marked, ok, forwarded)
                      ELSE audit)
       /\ \E statusCode \in UpstreamStatuses(ok) :
            IF via = "proxy"
              THEN \E human \in BOOLEAN :
                     reply' = WriteHead(statusCode, human,
                                        RedirectHumans(url), url)
              ELSE reply' = CopyProxyHeaders(statusCode)
  /\ IF via = "proxyForChanges"
       THEN ProxyResChanges
       ELSE UNCHANGED feedVars
  /\ hook' = (IF via = "proxyForAuth"
                THEN [hook EXCEPT !.phase = "open"] ELSE hook)
  /\ UNCHANGED <<inputs, url, userCtx, bodyDocs, authorized, marked,
                 intercept, ri, hi, via, forwarded, cookieSet, check, log,
                 aside, bulkVars>>

\* what the change-feed actions leave alone
FeedFrame ==
  UNCHANGED <<inputs, url, userCtx, bodyDocs, authorized, marked, intercept,
              ri, hi, outcome, via, forwarded, responded, audit, cookieSet,
              check, log, aside, bulkVars, reply, hook>>

\* proxyRes.pipe(res) without the flush of line 816
ChangesDataNoFlush ==
  /\ feed = "open"
  /\ Len(received) < MaxChunks
  /\ \E c \in NextChunks(received) :
       /\ received' = Append(received, c)
       /\ zbuf' = PipeWrite(c).zbuf
       /\ delivered' = PipeWrite(c).delivered
       /\ UNCHANGED <<flushReq, flushes>>
  /\ UNCHANGED <<feed, compress>>
  /\ FeedFrame

\* a 'data' event of proxyRes: the listener of pipe() writes the chunk to
\* the response, then the listener of line 816 calls res.flush()
ChangesData ==
  /\ feed = "open"
  /\ Len(received) < MaxChunks
  /\ \E c \in NextChunks(received) :
       /\ received' = Append(received, c)
       /\ zbuf' = PipeWrite(c).zbuf
       /\ delivered' = PipeWrite(c).delivered
       /\ flushReq' = ResFlush
       /\ flushes' = flushes + 1
  /\ UNCHANGED <<feed, compress>>
  /\ FeedFrame

\* changesHandler on a chunk of the upstream feed: what the Stream Filter
\* makes of it is sent to the client
FilterChangesData ==
  /\ feed = "filtering"
  /\ Len(received) < MaxChunks
  /\ \E c \in NextChunks(received) :
       /\ received' = Append(received, c)
       /\ delivered' = delivered \o FilterChange(c, visible, lastKnown)
  /\ UNCHANGED <<feed, compress, zbuf, flushReq, flushes>>
  /\ FeedFrame

\* changesHandler at the end of the upstream feed
FilterChangesEnd ==
  /\ feed = "filtering"
  /\ feed' = "ended"
  /\ UNCHANGED <<compress, received, zbuf, flushReq, flushes, delivered>>
  /\ FeedFrame

\* the compression stream emits what it holds once a flush was asked for
ZlibEmit ==
  /\ compress
  /\ flushReq
  /\ delivered' = delivered \o zbuf
  /\ zbuf' = << >>
  /\ flushReq' = FALSE
  /\ UNCHANGED <<feed, compress, received, flushes>>
  /\ FeedFrame

\* the 'end' event of proxyRes: pipe() ends the response, which drains the
\* compression stream
ChangesEnd ==
  /\ feed = "open"
  /\ feed' = "ended"
  /\ delivered' = delivered \o zbuf
  /\ zbuf' = << >>
  /\ flushReq' = FALSE
  /\ UNCHANGED <<compress, received, flushes>>
  /\ FeedFrame

Next ==
  \/ DbInfo
  \/ MedicRewrite
  \/ AdminRewrite
  \/ MetaRewrite
  \/ GetUserCtx
  \/ OfflineUserFirewall
  \/ Session
  \/ ProxyWeb
  \/ ProxyForChangesWeb
  \/ JsonParser
  \/ JsonQueryParser
  \/ HandleJsonRequest
  \/ Local
  \/ OnlineUserProxy
  \/ OnlineUserChangesProxy
  \/ OnlineUserPassThrough
  \/ InfodocMark
  \/ BulkDocsRequest
  \/ DbDocRequest
  \/ RequestDdoc
  \/ FilterHandler
  \/ SetAuthorized
  \/ CanEdit
  \/ BackendResponse

Spec == Init /\ [][Next]_vars

\* -------------------------------------------- the proxyForAuth response
\* the chunks of a response body
BodyChunks == {<<1>>, <<2>>, <<1, 2>>}

\* a buffer that keeps the last chunk only
BufferLast(body, data) == data

\* body = Buffer.concat([body, data])
BufferConcat(body, data) == body \o data

AuthFrame ==
  UNCHANGED <<inputs, url, userCtx, bodyDocs, authorized, marked, intercept,
              ri, hi, outcome, via, forwarded, responded, audit, cookieSet,
              check, log, aside, bulkVars, reply, feed, compress, zbuf,
              flushReq, flushes>>

\* proxyRes 'data': buffered when res.interceptResponse is set, else piped
\* to the client
AuthData ==
  /\ hook.phase = "open"
  /\ Len(received) < MaxChunks
  /\ \E data \in BodyChunks :
       /\ received' = Append(received, data)
       /\ IF intercept
            THEN /\ hook' = [hook EXCEPT !.body = BufferConcat(@, data)]
                 /\ UNCHANGED delivered
            ELSE /\ delivered' = Append(delivered, data)
                 /\ UNCHANGED hook
  /\ AuthFrame

\* proxyRes 'end': res.interceptResponse(req, res, body.toString())
AuthEnd ==
  /\ hook.phase = "open"
  /\ hook' = [hook EXCEPT !.phase = "ended",
                          !.calls = IF intercept
                                      THEN Append(@, hook.body) ELSE @]
  /\ UNCHANGED <<received, delivered>>
  /\ AuthFrame

\* the writes of the db: a bulk write, a document write
IsWriteRequest ==
  /\ method \in {"POST", "PUT"}
  /\ url \in {<<EnvDb, "_bulk_docs">>, <<EnvDb, "doc">>}

InitAuthResponse == Init /\ IsWriteRequest

\* the router on a write of the db, then the response as it streams
NextAuthResponse ==
  \/ MedicRewrite
  \/ GetUserCtx
  \/ JsonParser
  \/ InfodocMark
  \/ OnlineUserPassThrough
  \/ JsonQueryParser
  \/ BulkDocsRequest
  \/ DbDocRequest
  \/ SetAuthorized
  \/ OfflineUserFirewall
  \/ CanEdit
  \/ BackendResponse
  \/ AuthData
  \/ AuthEnd

SpecAuthResponse == InitAuthResponse /\ [][NextAuthResponse]_vars

\* ------------------------------------------------- the change-feed requests
\* a request of the change feed of the db or of the user's meta db
IsChangesRequest ==
  \/ url = <<EnvDb, "_changes">> /\ method \in GET \cup POST
  \/ url = <<MetaDb, "_changes">> /\ method \in GET

\* the requests of the change feed; the documents and the visibility of the
\* user only matter to the feed an offline user reads
InitFeed ==
  /\ Init
  /\ IsChangesRequest
  /\ docs = {1}
  /\ lastKnown = {} => (visible = {} \/ session = "offline")

\* the router on a change-feed request, then the response as it streams
NextFeed ==
  \/ MedicRewrite
  \/ MetaRewrite
  \/ GetUserCtx
  \/ OnlineUserChangesProxy
  \/ JsonParser
  \/ ProxyForChangesWeb
  \/ FilterHandler
  \/ BackendResponse
  \/ ChangesData
  \/ ZlibEmit
  \/ ChangesEnd
  \/ FilterChangesData
  \/ FilterChangesEnd

SpecFeed == InitFeed /\ [][NextFeed]_vars

\* ----------------------------------------------------- the bulk reads
\* the key lists of a bulk read
KeyLists == UNION {[1..n -> Docs] : n \in 1..MaxKeys}

\* a bulk read of a key list: _all_docs or _bulk_get
InitBulkRead ==
  /\ InitRequest
  /\ \/ url = <<EnvDb, "_all_docs">> /\ method \in GET \cup POST
     \/ url = <<EnvDb, "_bulk_get">> /\ method \in POST
  /\ docs = {1}
  /\ keys \in KeyLists

\* the router on a bulk read
NextBulkRead ==
  \/ MedicRewrite
  \/ GetUserCtx
  \/ OnlineUserProxy
  \/ JsonParser
  \/ JsonQueryParser
  \/ FilterHandler
  \/ BackendResponse

SpecBulkRead == InitBulkRead /\ [][NextBulkRead]_vars

\* ------------------------------------------ the replica of an offline user
\* the router, between two requests of the offline user
RouterIdle ==
  /\ method = "GET" /\ url = <<EnvDb, "_changes">>
  /\ session = "offline" /\ userCtx = "offline"
  /\ docs = {1} /\ bodyDocs = {1} /\ cookie = "undefined"
  /\ authorized = FALSE /\ marked = FALSE /\ intercept = FALSE
  /\ ri = 1 /\ hi = 1 /\ outcome = "filtered" /\ via = "none"
  /\ forwarded = {} /\ responded = FALSE /\ audit = {}
  /\ cookieSet = FALSE /\ check = "none" /\ log = << >>
  /\ feed = "none" /\ compress = FALSE /\ zbuf = << >>
  /\ flushReq = FALSE /\ flushes = 0
  /\ keys = << >> /\ rows = << >> /\ answer = << >>
  /\ contentType = "application/json" /\ reply = NoReply
  /\ hook = NoHook

routerRest ==
  << method, url, session, userCtx, docs, cookie, bodyDocs, authorized,
     marked, intercept, ri, hi, outcome, via, forwarded, responded, audit,
     cookieSet, check, log, feed, compress, zbuf, flushReq, flushes,
     keys, rows, answer, contentType, reply, hook >>

\* the user's replica is in sync: it holds what the user may see
InitReplica ==
  /\ RouterIdle
  /\ OthersIdle
  /\ visible \in SUBSET Docs
  /\ lastKnown = visible
  /\ everVisible = visible
  /\ pending = << >>
  /\ purgeLog = << >>
  /\ purgeCalls = << >>
  /\ received = << >>
  /\ delivered = << >>

\* the change feed lists a document once, at its latest change
Touch(q, d) ==
  LET Other(x) == x # d IN SelectSeq(q, Other) \o <<d>>

\* an append that leaves the log alone for a document already in it
RecordPurgeOnce(plog, d) ==
  IF \E i \in 1..Len(plog) : plog[i].doc = d
    THEN plog
    ELSE Append(plog, [doc |-> d, pseq |-> Len(plog) + 1])

\* recordPurge(userId, docId, revision): the log is append-only and ordered
\* by purgeSequence
RecordPurge(plog, d) == Append(plog, [doc |-> d, pseq |-> Len(plog) + 1])

\* a document is assigned to a facility the user sees
GainVisibility ==
  /\ \E d \in Docs \ visible :
       /\ visible' = visible \cup {d}
       /\ lastKnown' = lastKnown \cup {d}
       /\ everVisible' = everVisible \cup {d}
       /\ pending' = Touch(pending, d)
  /\ UNCHANGED <<routerRest, others, purgeLog, purgeCalls, received, delivered>>

\* a visible document is assigned to a facility the user does not see: the
\* Visibility Resolver records the purge
LoseVisibility ==
  /\ Len(purgeLog) < MaxPurges
  /\ \E d \in visible :
       /\ visible' = visible \ {d}
       /\ purgeLog' = RecordPurge(purgeLog, d)
       /\ pending' = Touch(pending, d)
  /\ UNCHANGED <<routerRest, others, lastKnown, everVisible, purgeCalls, received,
                 delivered>>

\* a document is written upstream, its facility is not changed
DocChange ==
  /\ \E d \in Docs : pending' = Touch(pending, d)
  /\ pending' # pending
  /\ UNCHANGED <<routerRest, others, visible, lastKnown, everVisible, purgeLog,
                 purgeCalls, received, delivered>>

\* the Stream Filter on a whole feed
RECURSIVE FilterChangeFeed(_, _, _)
FilterChangeFeed(events, vis, known) ==
  IF events = << >> THEN << >>
  ELSE FilterChange(Head(events), vis, known)
         \o FilterChangeFeed(Tail(events), vis, known)

\* the user's replica reads the change feed since its last read
FeedRead ==
  /\ received' = [i \in 1..Len(pending) |-> ChangeEvent(i, pending[i])]
  /\ delivered' = FilterChangeFeed(received', visible, lastKnown)
  /\ lastKnown' = visible
  /\ pending' = << >>
  /\ UNCHANGED <<routerRest, others, visible, everVisible, purgeLog, purgeCalls>>

NextReplica ==
  \/ GainVisibility
  \/ LoseVisibility
  \/ DocChange
  \/ FeedRead

SpecReplica == InitReplica /\ [][NextReplica]_vars

\* ------------------------------------------------------------ the purge feed
\* the checkpoints a client may send: a purgeSequence it has seen, or one
\* this log never issued
Checkpoints == (0 - 1)..(MaxPurges + 1)

\* the checkpoint is a cursor into this log
CheckpointKnown(plog, cp) == cp \in 0..Len(plog)

\* a purge feed that returns the next entry only
PurgesSinceOneEntry(plog, cp) ==
  IF CheckpointKnown(plog, cp)
    THEN [status |-> "ok",
          entries |-> SubSeq(plog, cp + 1, IF cp < Len(plog) THEN cp + 1 ELSE cp),
          next |-> Len(plog)]
    ELSE [status |-> "CheckpointInvalid", entries |-> << >>, next |-> 0 - 1]

\* a purge feed that takes an unknown checkpoint for the end of the log
PurgesSinceLenient(plog, cp) ==
  [status |-> "ok",
   entries |-> IF CheckpointKnown(plog, cp)
                 THEN SubSeq(plog, cp + 1, Len(plog)) ELSE << >>,
   next |-> Len(plog)]

\* purgesSince(userId, checkpoint) -> (entries, newCheckpoint), or the
\* CheckpointInvalid condition
PurgesSince(plog, cp) ==
  IF CheckpointKnown(plog, cp)
    THEN [status |-> "ok",
          entries |-> SubSeq(plog, cp + 1, Len(plog)),
          next |-> Len(plog)]
    ELSE [status |-> "CheckpointInvalid", entries |-> << >>, next |-> 0 - 1]

\* GET /purging/changes by the offline user: the log is read, not changed
GetPurgedDocs ==
  /\ \E cp \in Checkpoints :
       purgeCalls' =
         (IF purgeCalls = << >> THEN << >> ELSE <<purgeCalls[Len(purgeCalls)]>>)
           \o <<[cp |-> cp, size |-> Len(purgeLog),
                 out |-> PurgesSince(purgeLog, cp)]>>
  /\ UNCHANGED <<routerRest, others, visible, lastKnown, everVisible, pending,
                 purgeLog, received, delivered>>

NextPurge ==
  \/ GainVisibility
  \/ LoseVisibility
  \/ GetPurgedDocs

SpecPurge == InitReplica /\ [][NextPurge]_vars

\* ------------------------------------------------------ reading the log
Ran(line, h) == \E i \in 1..Len(log) : log[i] = <<line, h>>

RanHandler(h) == \E i \in 1..Len(log) : log[i][2] = h

Answered == outcome # "pending"

Forwarded == via # "none"

LastRan(line, h) == Len(log) > 0 /\ log[Len(log)] = <<line, h>>

\* ------------------------------------------------ the Visibility Resolver
\* the replica, between two reads of the offline user
ReplicaIdle ==
  /\ visible = {} /\ lastKnown = {} /\ everVisible = {}
  /\ pending = << >> /\ purgeLog = << >> /\ purgeCalls = << >>
  /\ received = << >> /\ delivered = << >>

\* hierarchy(facilityId) -> children: any relation over the facilities, a
\* facility that is its own descendant included; the user's facilityId; the
\* documents the user owns
Hierarchies ==
  [children : [Facilities -> SUBSET Facilities],
   root : Facilities,
   own : SUBSET Docs]

\* a document is owned by one facility
Owner(d) == ((d - 1) % MaxFacilities) + 1

OwnedBy(f) == {d \in Docs : Owner(d) = f}

\* the facilities of a set, lowest id first
RECURSIVE SeqOf(_)
SeqOf(S) ==
  IF S = {} THEN << >>
  ELSE LET m == CHOOSE x \in S : \A y \in S : x <= y
       IN <<m>> \o SeqOf(S \ {m})

InitTraversal ==
  /\ RouterIdle
  /\ ReplicaIdle
  /\ hier \in Hierarchies
  /\ trav = NoTraversal
  /\ ValidationIdle
  /\ ToolsIdle

\* resolve(user): the traversal starts at user.facilityId; the documents the
\* user owns are visible whatever the hierarchy
ResolveStart ==
  /\ trav.phase = "idle"
  /\ trav' = [NoTraversal EXCEPT !.phase = "run",
                                 !.stack = <<hier.root>>,
                                 !.set = hier.own]
  /\ UNCHANGED << routerRest, visible, lastKnown, received, delivered,
                  pending, purgeLog, everVisible, purgeCalls, hier,
                  valVars, e2e, build >>

\* a descent that does not look at the facilities already visited
DescendAgain(t, f) ==
  [t EXCEPT !.stack = SeqOf(hier.children[f]) \o Tail(t.stack),
            !.visited = t.visited \cup {f},
            !.set = t.set \cup OwnedBy(f),
            !.descents = t.descents + 1,
            !.pops = t.pops + 1]

\* one step of the depth-first traversal: a facility id met again is
\* already visited and is not descended into again
Descend(t, f) ==
  IF f \in t.visited
    THEN [t EXCEPT !.stack = Tail(t.stack), !.pops = t.pops + 1]
    ELSE [t EXCEPT !.stack = SeqOf(hier.children[f]) \o Tail(t.stack),
                   !.visited = t.visited \cup {f},
                   !.set = t.set \cup OwnedBy(f),
                   !.descents = t.descents + 1,
                   !.pops = t.pops + 1]

ResolveStep ==
  /\ trav.phase = "run"
  /\ trav.stack # << >>
  /\ trav.descents <= MaxFacilities
  /\ trav' = Descend(trav, Head(trav.stack))
  /\ UNCHANGED << routerRest, visible, lastKnown, received, delivered,
                  pending, purgeLog, everVisible, purgeCalls, hier,
                  valVars, e2e, build >>

\* nothing is left to visit: the set is the user's VisibilitySet
ResolveEnd ==
  /\ trav.phase = "run"
  /\ trav.stack = << >>
  /\ trav' = [trav EXCEPT !.phase = "done"]
  /\ UNCHANGED << routerRest, visible, lastKnown, received, delivered,
                  pending, purgeLog, everVisible, purgeCalls, hier,
                  valVars, e2e, build >>

NextTraversal ==
  \/ ResolveStart
  \/ ResolveStep
  \/ ResolveEnd

SpecTraversal == InitTraversal /\ [][NextTraversal]_vars

\* ------------------------------------------------- the ValidationService
\* what settingsService.get resolves to
SettingsValues == {"some settings", "the settings"}

\* dbService.get()
MedicDb == "medic db"

\* the validations.list of a config
RuleLists ==
  {<< >>, <<"type equals data_record">>,
   <<"type equals data_record", "_id required">>}

\* the configs: {}, {validations: {}} and {validations: {list: [...]}}
Configs ==
  {[validations |-> FALSE, list |-> FALSE, rules |-> << >>],
   [validations |-> TRUE, list |-> FALSE, rules |-> << >>]}
  \cup {[validations |-> TRUE, list |-> TRUE, rules |-> l] : l \in RuleLists}

\* what validation.validate resolves to
ValidationResults == {<< >>, <<"some errors">>}

Undefined == [defined |-> FALSE, value |-> << >>]

InitValidation ==
  /\ RouterIdle
  /\ ReplicaIdle
  /\ TraversalIdle
  /\ ToolsIdle
  /\ settings \in SettingsValues
  /\ svc = NewService
  /\ calls = << >>

\* an init that fetches the settings whether inited or not
InitAlways(s, n) ==
  [s EXCEPT !.inited = TRUE,
            !.settingsGet = Append(@, n),
            !.init = Append(@, [at |-> n, settings |-> settings,
                                db |-> [medic |-> MedicDb]])]

\* ValidationService.init(), as call number n: once inited it does nothing;
\* else it fetches the settings and hands them, with the medic db, to
\* validation.init
ServiceInit(s, n) ==
  IF s.inited
    THEN s
    ELSE [s EXCEPT !.inited = TRUE,
                   !.settingsGet = Append(@, n),
                   !.init = Append(@, [at |-> n, settings |-> settings,
                                       db |-> [medic |-> MedicDb]])]

\* a skip that takes any list, an empty one included, for validations
SkipWithoutList(config) == ~config.validations \/ ~config.list

\* validate has nothing to validate against
SkipValidation(config) ==
  ~config.validations \/ ~config.list \/ config.rules = << >>

\* a call that hands validation.validate an empty doc
ValidateArgsNoDoc(doc, config) == [doc |-> 0, list |-> config.rules]

\* what validate hands to validation.validate
ValidateArgs(doc, config) == [doc |-> doc, list |-> config.rules]

ValidationFrame ==
  UNCHANGED << routerRest, visible, lastKnown, received, delivered,
               pending, purgeLog, everVisible, purgeCalls, hier, trav,
               settings, e2e, build >>

\* await service.init()
CallInit ==
  /\ Len(calls) < MaxCalls
  /\ svc' = ServiceInit(svc, Len(calls) + 1)
  /\ calls' = Append(calls, [op |-> "init", doc |-> 0,
                             config |-> [validations |-> FALSE,
                                         list |-> FALSE, rules |-> << >>],
                             returned |-> Undefined])
  /\ ValidationFrame

\* await service.validate(doc, config): inits if not inited, then hands the
\* doc and the list to validation.validate and returns what it resolves to
CallValidate ==
  /\ Len(calls) < MaxCalls
  /\ \E doc \in Docs, config \in Configs, res \in ValidationResults :
       LET n == Len(calls) + 1
           s == ServiceInit(svc, n)
       IN IF SkipValidation(config)
            THEN /\ svc' = s
                 /\ calls' = Append(calls, [op |-> "validate", doc |-> doc,
                                            config |-> config,
                                            returned |-> Undefined])
            ELSE /\ svc' = [s EXCEPT !.validate =
                              Append(@, [at |-> n, resolved |-> res,
                                         args |-> ValidateArgs(doc, config)])]
                 /\ calls' = Append(calls, [op |-> "validate", doc |-> doc,
                                            config |-> config,
                                            returned |-> [defined |-> TRUE,
                                                          value |-> res]])
  /\ ValidationFrame

NextValidation ==
  \/ CallInit
  \/ CallValidate

SpecValidation == InitValidation /\ [][NextValidation]_vars

\* ----------------------------------------------- the e2e settings helper
\* if (originalSettings): undefined and null are falsy, settings are an
\* object
Truthy(o) == o.kind = "settings"

\* a call of the helper: its phase is "thrown", "get", "put", "done",
\* "getRejected" or "putRejected"
Op(name, phase, updates, body, match, error) ==
  [op |-> name, phase |-> phase, updates |-> updates, body |-> body,
   got |-> InitialSettings, match |-> match, error |-> error]

\* request(options): the request is sent when the helper is called
Request(m, path, body, by) ==
  [method |-> m, path |-> path, body |-> body, by |-> by]

InitSettingsHelper ==
  /\ RouterIdle
  /\ ReplicaIdle
  /\ TraversalIdle
  /\ ValidationIdle
  /\ e2e = NewHelper
  /\ build = NoBuild

HelperFrame ==
  UNCHANGED << routerRest, visible, lastKnown, received, delivered,
               pending, purgeLog, everVisible, purgeCalls, hier, trav,
               valVars, build >>

\* an updateSettings without its guard
UpdateRefusedNever(h) == FALSE

\* if (originalSettings) throw
UpdateRefused(h) == Truthy(h.original)

\* updateSettings(updates): throws, or sends the GET of the settings
UpdateSettings ==
  /\ Len(e2e.ops) < MaxOps
  /\ LET n == Len(e2e.ops) + 1 IN
     IF UpdateRefused(e2e)
       THEN e2e' = [e2e EXCEPT !.ops = Append(@,
                      Op("update", "thrown", n, << >>, 0,
                         "A previous test did not call revertSettings"))]
       ELSE e2e' = [e2e EXCEPT
                      !.ops = Append(@, Op("update", "get", n, << >>, 0, "")),
                      !.requests = Append(@,
                         Request("GET", "app_settings", << >>, n)),
                      !.accepted = @ + 1,
                      !.baseline = IF e2e.accepted = 0
                                     THEN e2e.server ELSE @]
  /\ HelperFrame

\* the GET of an updateSettings is settled: fulfilled, the settings are
\* stored and the PUT of the updates is sent; rejected, the chain ends
UpdateGetSettled ==
  \E i \in 1..Len(e2e.ops), fulfilled \in BOOLEAN :
    /\ e2e.ops[i].op = "update"
    /\ e2e.ops[i].phase = "get"
    /\ IF fulfilled
         THEN e2e' = [e2e EXCEPT
                        !.original = [kind |-> "settings",
                                      value |-> e2e.server],
                        !.stored = TRUE,
                        !.storedBy = i,
                        !.ops[i].got = e2e.server,
                        !.ops[i].phase = "put",
                        !.requests = Append(@,
                           Request("PUT", "update_settings",
                                   <<e2e.ops[i].updates>>, i))]
         ELSE e2e' = [e2e EXCEPT !.ops[i].phase = "getRejected"]
    /\ HelperFrame

\* the PUT of an updateSettings is settled; the server has merged the
\* updates or has not
UpdatePutSettled ==
  \E i \in 1..Len(e2e.ops), fulfilled \in BOOLEAN, applied \in BOOLEAN :
    /\ e2e.ops[i].op = "update"
    /\ e2e.ops[i].phase = "put"
    /\ e2e' = [e2e EXCEPT
                 !.server = IF applied
                              THEN Append(@, e2e.ops[i].updates) ELSE @,
                 !.ops[i].phase = IF fulfilled THEN "done"
                                  ELSE "putRejected"]
    /\ HelperFrame

\* revertSettings(): throws, or sends the PUT of the stored settings
RevertSettings ==
  /\ Len(e2e.ops) < MaxOps
  /\ LET n == Len(e2e.ops) + 1 IN
     IF ~Truthy(e2e.original)
       THEN e2e' = [e2e EXCEPT !.ops = Append(@,
                      Op("revert", "thrown", 0, << >>, 0,
                         "No original settings to revert to"))]
       ELSE e2e' = [e2e EXCEPT
                      !.ops = Append(@,
                         Op("revert", "put", 0, e2e.original.value,
                            e2e.storedBy, "")),
                      !.requests = Append(@,
                         Request("PUT", "update_settings",
                                 e2e.original.value, n))]
  /\ HelperFrame

\* a revert that forgets the original whatever became of its PUT
AfterRevertAlwaysNull(o, fulfilled) ==
  [kind |-> "null", value |-> InitialSettings]

\* .then(function() { originalSettings = null; })
AfterRevert(o, fulfilled) ==
  IF fulfilled THEN [kind |-> "null", value |-> InitialSettings] ELSE o

\* the PUT of a revertSettings is settled
RevertPutSettled ==
  \E i \in 1..Len(e2e.ops), fulfilled \in BOOLEAN, applied \in BOOLEAN :
    /\ e2e.ops[i].op = "revert"
    /\ e2e.ops[i].phase = "put"
    /\ e2e' = [e2e EXCEPT
                 !.server = IF applied THEN e2e.ops[i].body ELSE @,
                 !.original = AfterRevert(@, fulfilled),
                 !.stored = IF fulfilled THEN FALSE ELSE @,
                 !.accepted = IF fulfilled THEN 0 ELSE @,
                 !.ops[i].phase = IF fulfilled THEN "done"
                                  ELSE "putRejected"]
    /\ HelperFrame

NextSettingsHelper ==
  \/ UpdateSettings
  \/ UpdateGetSettled
  \/ UpdatePutSettled
  \/ RevertSettings
  \/ RevertPutSettled

SpecSettingsHelper == InitSettingsHelper /\ [][NextSettingsHelper]_vars

\* ------------------------------------------------- the dependency build
\* grunt.registerTask('install-dependencies', ...)
InstallDependencies ==
  <<"exec:undo-patches", "exec:npm-ci-shared-libs", "exec:npm-ci-modules",
    "copy:libraries-to-patch", "exec:apply-patches">>

\* the tasks run on a checkout and the targets each of them queues
Tasks ==
  [t \in {"install-dependencies", "exec:undo-patches",
          "copy:libraries-to-patch", "exec:apply-patches"} |->
     IF t = "install-dependencies" THEN InstallDependencies ELSE <<t>>]

InitBuild ==
  /\ RouterIdle
  /\ ReplicaIdle
  /\ TraversalIdle
  /\ ValidationIdle
  /\ e2e = NewHelper
  /\ build = NoBuild

BuildFrame ==
  UNCHANGED << routerRest, visible, lastKnown, received, delivered,
               pending, purgeLog, everVisible, purgeCalls, hier, trav,
               valVars, e2e >>

\* the head of grunt's queue
Running(target) == build.queue # << >> /\ Head(build.queue) = target

\* a target has ended: grunt goes on with the queue, and a failed target
\* aborts the task
TargetDone(b, ok, modules, backup) ==
  LET rest == IF ok THEN Tail(b.queue) ELSE << >>
      ended == rest = << >>
  IN [modules |-> modules,
      backup |-> backup,
      queue |-> rest,
      task |-> IF ended THEN "none" ELSE b.task,
      history |-> IF ended
                    THEN Append(b.history, [task |-> b.task, ok |-> ok])
                    ELSE b.history]

\* grunt <task>
RunTask ==
  /\ build.queue = << >>
  /\ Len(build.history) < MaxRuns
  /\ \E t \in DOMAIN Tasks :
       build' = [build EXCEPT !.queue = Tasks[t], !.task = t]
  /\ BuildFrame

\* [ -d backupPath ] && rm -rf modulePath && mv backupPath modulePath
Restored(b, m) == m \in ModulesToPatch /\ b.backup[m] # "absent"

\* exec:undo-patches: every command of the chain ends with an echo, so the
\* target does not fail
ExecUndoPatches ==
  /\ Running("exec:undo-patches")
  /\ build' = TargetDone(build, TRUE,
                 [m \in Modules |-> IF Restored(build, m)
                                      THEN build.backup[m]
                                      ELSE build.modules[m]],
                 [m \in Modules |-> IF Restored(build, m)
                                      THEN "absent"
                                      ELSE build.backup[m]])
  /\ BuildFrame

\* exec:npm-ci-shared-libs: npm ci in every shared library; webapp is not
\* touched
ExecNpmCiSharedLibs ==
  /\ Running("exec:npm-ci-shared-libs")
  /\ \E ok \in BOOLEAN :
       build' = TargetDone(build, ok, build.modules, build.backup)
  /\ BuildFrame

\* exec:npm-ci-modules: npm ci in webapp, api, sentinel and admin; npm ci
\* removes node_modules and installs it anew; a failure in webapp leaves no
\* node_modules, a failure in a later directory leaves webapp installed
ExecNpmCiModules ==
  /\ Running("exec:npm-ci-modules")
  /\ \E ok \in BOOLEAN, installed \in {"absent", "clean"} :
       /\ ok => installed = "clean"
       /\ build' = TargetDone(build, ok, [m \in Modules |-> installed],
                              build.backup)
  /\ BuildFrame

\* copy:libraries-to-patch: the files of the listed modules are copied to
\* webapp/node_modules_backup
CopyLibrariesToPatch ==
  /\ Running("copy:libraries-to-patch")
  /\ build' = TargetDone(build, TRUE, build.modules,
                 [m \in Modules |->
                    IF m \in LibrariesToPatch /\ build.modules[m] # "absent"
                      THEN build.modules[m]
                      ELSE build.backup[m]])
  /\ BuildFrame

\* patches.join(' && '): patch fails on a file that is missing or already
\* patched, and the commands after it do not run
RECURSIVE ApplyPatches(_, _)
ApplyPatches(modules, i) ==
  IF i > Len(Patches)
    THEN [modules |-> modules, ok |-> TRUE]
    ELSE IF modules[Patches[i]] = "clean"
      THEN ApplyPatches([modules EXCEPT ![Patches[i]] = "patched"], i + 1)
      ELSE [modules |-> modules, ok |-> FALSE]

\* exec:apply-patches
ExecApplyPatches ==
  /\ Running("exec:apply-patches")
  /\ LET patched == ApplyPatches(build.modules, 1) IN
       build' = TargetDone(build, patched.ok, patched.modules, build.backup)
  /\ BuildFrame

NextBuild ==
  \/ RunTask
  \/ ExecUndoPatches
  \/ ExecNpmCiSharedLibs
  \/ ExecNpmCiModules
  \/ CopyLibrariesToPatch
  \/ ExecApplyPatches

SpecBuild == InitBuild /\ [][NextBuild]_vars

\* ------------------------------------------------------------------ C1
IsOnlineOnlyUrl(p) ==
  \E i \in 1..Len(OnlineOnlyEndpoints) : Matches(OnlineOnlyEndpoints[i], p)

IsUnauditedUrl(p) ==
  \E i \in 1..Len(UnauditedEndpoints) : Matches(UnauditedEndpoints[i], p)

\* C1: an offline user's request, with any method, whose path matches an
\* online-only pattern is never forwarded by any proxy and is answered with
\* Forbidden by the firewall route of line 401, also when the pattern is
\* listed again in UNAUDITED_ENDPOINTS.
C1_OnlineOnlyRejectsOffline ==
  (session = "offline" /\ IsOnlineOnlyUrl(url)) =>
    /\ ~Forwarded
    /\ ~RanHandler("proxyWeb")
    /\ Answered => outcome = "forbidden" /\ LastRan(401, "offlineUserFirewall")

C1_Witness ==
  /\ session = "offline"
  /\ IsOnlineOnlyUrl(url)
  /\ IsUnauditedUrl(url)
  /\ method = "POST"
  /\ outcome = "forbidden"

\* ------------------------------------------------------------------ C2
\* the global firewall of line 836 has run and has called next()
PastGlobalFirewall ==
  \E i \in 1..Len(log) :
    /\ log[i] = <<836, "offlineUserFirewall">>
    /\ ~(i = Len(log) /\ outcome = "forbidden")

\* an offline request without the flag stops at the global firewall
OfflineUnflaggedStops ==
  (userCtx = "offline" /\ ~authorized) =>
    /\ ~RanHandler("canEdit")
    /\ ~Ran(858, "proxyWeb")
    /\ Ran(836, "offlineUserFirewall") =>
         outcome = "forbidden" /\ LastRan(836, "offlineUserFirewall")

\* C2 as stated: every request past the global firewall comes from an online
\* user or carries the authorized flag, and an offline request without the
\* flag is answered Forbidden and reaches neither canEdit nor the catch-all.
C2_Original ==
  /\ PastGlobalFirewall => (userCtx = "online" \/ authorized)
  /\ OfflineUnflaggedStops

\* C2 amended: every request past the global firewall comes from an online
\* user, carries the authorized flag, or has no user context at all; an
\* offline request without the flag is answered Forbidden and reaches neither
\* canEdit nor the catch-all proxy.
C2_FirewallGate ==
  /\ PastGlobalFirewall => (userCtx \in {"online", "none"} \/ authorized)
  /\ OfflineUnflaggedStops

C2_Witness ==
  /\ userCtx = "offline"
  /\ ~authorized
  /\ method = "PUT"
  /\ LastRan(836, "offlineUserFirewall")
  /\ outcome = "forbidden"

\* ------------------------------------------------------------------ C3
\* the layers that are not specific routes: url rewrites, getUserCtx, the
\* global firewall, the can_edit write routes and the catch-all proxy
GenericLines == {346, 353, 384, 704, 836, 854, 855, 856, 858}

\* the request was answered and matched no specific route
Unmatched ==
  /\ Answered
  /\ \A i \in 1..Len(log) : log[i][1] \in GenericLines

\* C3 as stated: a request that matches no specific route is rejected and
\* never forwarded to the backing store, whatever the user class.
C3_Original == Unmatched => ~Forwarded

\* C3 amended: a request that matches no specific route is rejected with
\* Forbidden only when it comes from an offline user; for an online or an
\* unauthenticated user it is forwarded to the backing store, a PUT, POST or
\* DELETE under the db prefix through canEdit and proxyForAuth (or answered
\* not-authorized when the can_edit check fails), anything else through the
\* catch-all plain proxy.
C3_UnmatchedDefault ==
  Unmatched =>
    /\ userCtx = "offline" => (outcome = "forbidden" /\ ~Forwarded)
    /\ userCtx # "offline" =>
         IF method \in WriteMethods /\ UnderDb(url)
           THEN \/ via = "proxyForAuth" /\ check = "user"
                \/ outcome = "notAuthorized" /\ ~Forwarded
           ELSE via = "proxy" /\ LastRan(858, "proxyWeb")

C3_Witness ==
  /\ Unmatched
  /\ userCtx = "online"
  /\ url = <<"_users", "u1">>
  /\ via = "proxy"
  /\ outcome = "backendOk"

\* ------------------------------------------------------------------ C4
FilteredLines == {601, 606, 617, 618, 628}

\* the filtered routes the request matches
FilteredMatches ==
  {j \in 1..NumRoutes :
     Routes[j].line \in FilteredLines /\ RouteMatches(j, method, url)}

LastOf(stack) == stack[Len(stack)]

Vetters == {"bulkDocsRequest", "dbDocRequest", "requestDdoc"}

\* setAuthorized, run as the i-th middleware, directly follows a vetting
\* handler of the same route that called next()
VettedAt(i) ==
  /\ i > 1
  /\ log[i - 1][1] = log[i][1]
  /\ log[i - 1][2] \in Vetters

\* the routes that consist of setAuthorized alone
UnvettedLines == {719, 831}

\* C5 as stated: on every route, setAuthorized runs only after a handler has
\* vetted the request and called next; no route sets the flag unvetted.
C5_Original ==
  \A i \in 1..Len(log) : log[i][2] = "setAuthorized" => VettedAt(i)

\* C5 amended: the flag is set by setAuthorized only; on the routes that end
\* in setAuthorized after a handler (_bulk_docs, db root, document PUT and
\* DELETE, attachments, GET of a design doc) it runs only after that handler
\* has vetted the request and called next; the two routes that consist of
\* setAuthorized alone, app.all(metaPathPrefix + '*') and
\* app.all(appPrefix + '*'), set the flag without any vetting.
C5_FlagAfterVetting ==
  /\ authorized => RanHandler("setAuthorized")
  /\ \A i \in 1..Len(log) :
       log[i][2] = "setAuthorized" =>
         IF log[i][1] \in UnvettedLines THEN ~VettedAt(i) ELSE VettedAt(i)

C5_Witness ==
  /\ session = "offline"
  /\ authorized
  /\ Ran(638, "bulkDocsRequest")
  /\ Ran(638, "setAuthorized")

\* ------------------------------------------------------------------ C6
\* the audited write routes whose stack holds infodoc.mark, and those whose
\* stack does not
MarkedLines == {638, 669, 678}
UnmarkedLines == {687, 694}
AuditedLines == MarkedLines \cup UnmarkedLines

\* the authorization step of line l, run as the i-th middleware, directly
\* follows the infodoc.mark of the same route
MarkedBefore(i) == i > 1 /\ log[i - 1] = <<log[i][1], "infodocMark">>

OnLines(lines) == \E i \in 1..Len(log) : log[i][1] \in lines

\* C6 as stated: every write on an audited route passes infodoc.mark before
\* the authorization step.
C6_Original ==
  \A i \in 1..Len(log) :
    (/\ method \in WriteMethods
     /\ log[i][1] \in AuditedLines
     /\ log[i][2] = "onlineUserPassThrough") => MarkedBefore(i)

\* C6 amended: a write on POST _bulk_docs, POST to the db root or PUT of a
\* document passes infodoc.mark before the authorization step and before it
\* can reach the backing store, for online and offline users alike; a DELETE
\* of a document and a write to an attachment path reach the authorization
\* step without passing infodoc.mark.
C6_MarkBeforeAuthorization ==
  /\ \A i \in 1..Len(log) :
       (log[i][1] \in AuditedLines /\ log[i][2] = "onlineUserPassThrough") =>
         IF log[i][1] \in MarkedLines THEN MarkedBefore(i)
         ELSE ~MarkedBefore(i)
  /\ (OnLines(MarkedLines) /\ Forwarded) => marked
  /\ (OnLines(UnmarkedLines) /\ ~OnLines(MarkedLines)) => ~marked

C6_Witness ==
  /\ session = "online"
  /\ method = "PUT"
  /\ Ran(678, "infodocMark")
  /\ Ran(678, "onlineUserPassThrough")
  /\ via = "proxyForAuth"

\* ------------------------------------------------------------------ C7
\* a write of an online user went through the authorization step of an
\* audited route
OnlineAuditedWrite ==
  /\ userCtx = "online"
  /\ method \in WriteMethods
  /\ \E l \in AuditedLines : Ran(l, "onlineUserPassThrough")

\* C7 as stated: the write is marked authorized unconditionally and is
\* forwarded without any further authorization check.
C7_Original ==
  (OnlineAuditedWrite /\ Forwarded) =>
    (authorized /\ ~RanHandler("canEdit"))

\* C7 amended: on a write-audited route the write of an online user skips
\* the rest of the route (the offline vetting handler and setAuthorized), so
\* the route does not mark it authorized; it passes the global firewall as
\* an online user and, its path matching editPath (routePrefix + '*'), is
\* forwarded through proxyForAuth only after canEdit's auth.check(req,
\* 'can_edit') resolved with a user, and is answered not-authorized otherwise;
\* only a POST to the db root written without a trailing slash, which editPath
\* does not match, is forwarded by the catch-all plain proxy unchecked.
C7_OnlinePassThrough ==
  OnlineAuditedWrite =>
    /\ \A l \in AuditedLines :
         ~Ran(l, "setAuthorized") /\ \A h \in Vetters : ~Ran(l, h)
    /\ Forwarded =>
         IF Matches("editPath", url)
           THEN via = "proxyForAuth" /\ check = "user"
                  /\ RanHandler("canEdit")
           ELSE via = "proxy" /\ url = <<EnvDb>> /\ method = "POST"
                  /\ ~RanHandler("canEdit")
    /\ Answered => (Forwarded \/ outcome = "notAuthorized")

C7_Witness ==
  /\ OnlineAuditedWrite
  /\ url = <<EnvDb, "_bulk_docs">>
  /\ ~authorized
  /\ via = "proxyForAuth"
  /\ outcome = "backendOk"

OfflineBulkWrite ==
  /\ session = "offline"
  /\ method = "POST"
  /\ NameOpt(url, "_bulk_docs")

\* C9 as stated: when a document of an offline bulk write fails
\* authorization, no document of the batch is forwarded and no AuditRecord
\* of the batch is updated.
C9_Original ==
  (OfflineBulkWrite /\ ~(docs \subseteq visible)) =>
    (forwarded = {} /\ audit = {})

\* C9 amended: an offline bulk write is filtered, not rejected as a whole:
\* the documents that fail authorization are removed from the batch, are
\* never forwarded and never have their AuditRecord updated; the documents
\* that pass are what is forwarded, with the response intercepted to fill in
\* the forbidden stubs.
C9_BulkFiltered ==
  OfflineBulkWrite =>
    /\ forwarded \subseteq (docs \cap visible)
    /\ audit \subseteq (docs \cap visible)
    /\ Ran(638, "bulkDocsRequest") =>
         (bodyDocs = docs \cap visible /\ intercept)
    /\ Forwarded =>
         (Ran(638, "bulkDocsRequest") /\ forwarded = docs \cap visible)

C9_Witness ==
  /\ OfflineBulkWrite
  /\ ~(docs \subseteq visible)
  /\ outcome = "backendOk"
  /\ forwarded # {}
  /\ audit = docs \cap visible

\* ----------------------------------------------------------------- C10
\* the classes under which a pattern is registered for a method
PatternClasses(pat, m) ==
  {Routes[j].class :
     j \in {k \in 1..NumRoutes :
              Routes[k].pat = pat /\ m \in Routes[k].methods}} \ {"Other"}

\* the patterns listed in both ONLINE_ONLY_ENDPOINTS and UNAUDITED_ENDPOINTS
DuplicatedPatterns ==
  {"_design/*/_list/*", "_design/*/_show/*", "_design/*/_view/*"}

\* C10 as stated: the pattern of the route handling the request is registered
\* under one class only.
C10_Original == Cardinality(PatternClasses(Routes[ri].pat, method)) <= 1

\* C10 amended: every endpoint pattern of the routing table is registered,
\* for a given method, under one class only, except '_design/*/_list/*',
\* '_design/*/_show/*' and '_design/*/_view/*', which are registered under
\* OnlineOnly (the firewall of line 401) and again under AlwaysProxy (the
\* plain proxy of line 436); a request handled by such a route matches both
\* lists.
C10_OneClassPerPattern ==
  /\ \A j \in 1..NumRoutes : \A m \in Routes[j].methods :
       \/ Cardinality(PatternClasses(Routes[j].pat, m)) <= 1
       \/ /\ Routes[j].pat \in DuplicatedPatterns
          /\ PatternClasses(Routes[j].pat, m) = {"OnlineOnly", "AlwaysProxy"}
  /\ Cardinality(PatternClasses(Routes[ri].pat, method)) > 1 =>
       (IsOnlineOnlyUrl(url) /\ IsUnauditedUrl(url))

C10_Witness ==
  /\ Routes[ri].pat = "_design/*/_view/*"
  /\ Routes[ri].class = "AlwaysProxy"
  /\ Ran(401, "offlineUserFirewall")
  /\ userCtx = "online"
  /\ outcome = "proxied"

\* ----------------------------------------------------------------- C11
\* '_local/*', '_revs_diff' and '_missing_revs' under routePrefix
ReplicationEndpoints == << "_local/*", "_revs_diff", "_missing_revs" >>

IsReplicationUrl(p) ==
  \E i \in 1..Len(ReplicationEndpoints) : Matches(ReplicationEndpoints[i], p)

\* the middleware a replication request must not meet
GatedHandlers ==
  FilterHandlers \cup
    {"offlineUserFirewall", "infodocMark", "onlineUserProxy",
     "onlineUserPassThrough", "bulkDocsRequest", "dbDocRequest", "canEdit"}

\* C11: a request to '_local/*', '_revs_diff' or '_missing_revs' under the
\* db prefix, with any method and from any user, meets neither the
\* offline-user firewall, nor a filtering handler, nor the audit stamping
\* step; it is answered only by being forwarded with the plain proxy from
\* the route of line 436, with its body untouched, and no AuditRecord is
\* updated for it.
C11_ReplicationPlainProxy ==
  IsReplicationUrl(url) =>
    /\ \A h \in GatedHandlers : ~RanHandler(h)
    /\ ~marked /\ ~authorized /\ ~intercept
    /\ bodyDocs = docs
    /\ audit = {}
    /\ Answered =>
         /\ via = "proxy"
         /\ LastRan(436, "proxyWeb")
         /\ outcome \in {"proxied", "backendOk", "backendError"}

C11_Witness ==
  /\ url = <<EnvDb, "_revs_diff">>
  /\ method = "POST"
  /\ session = "offline"
  /\ visible = {}
  /\ via = "proxy"
  /\ outcome = "backendOk"

\* ----------------------------------------------------------------- C12
\* the request is on a change-feed proxy connection
OnChangesProxy == via = "proxyForChanges" /\ feed # "none"

\* C12: on a proxyForChanges connection every chunk received from upstream,
\* heartbeats included, has been written to the response and followed by a
\* call of res.flush() before the next chunk is handled: whatever is still
\* inside the compression stream has a flush pending, so it reaches the
\* client without any further upstream data, and nothing is lost.
C12_FlushEveryChunk ==
  /\ feed = "open" => via = "proxyForChanges"
  /\ OnChangesProxy =>
       /\ flushes = Len(received)
       /\ delivered \o zbuf = received
       /\ zbuf # << >> => (compress /\ flushReq)
       /\ feed = "ended" => delivered = received

C12_Witness ==
  /\ OnChangesProxy
  /\ compress
  /\ feed = "open"
  /\ Len(received) = 2
  /\ received[2] = Heartbeat
  /\ delivered = received
  /\ flushes = 2

\* ----------------------------------------------------------------- C13
\* chunk a is what the connection made of upstream chunk b
ImageOf(a, b) == a.seq = b.seq /\ a.doc = b.doc

\* out is an order-preserving image of a subsequence of inp
Embeds(out, inp) ==
  \E f \in [1..Len(out) -> 1..Len(inp)] :
    /\ \A i \in 1..Len(out) : ImageOf(out[i], inp[f[i]])
    /\ \A i, j \in 1..Len(out) : i < j => f[i] < f[j]

\* the sequence numbers of the events of a sequence of chunks
SeqsOf(chunks) == [i \in 1..Len(Events(chunks)) |-> Events(chunks)[i].seq]

StrictlyIncreasing(q) == \A i, j \in 1..Len(q) : i < j => q[i] < q[j]

\* C13: on one change-feed connection, the upstream events arrive with the
\* sequence numbers 1..n and what is delivered to the client is an
\* order-preserving image of a subsequence of what arrived: a proxied
\* connection delivers the chunks received, each once and in order, a
\* filtered one the retained and stubbed events in the order of arrival.
C13_FeedOrder ==
  feed # "none" =>
    /\ SeqsOf(received) = [i \in 1..Len(Events(received)) |-> i]
    /\ Embeds(delivered \o zbuf, received)
    /\ StrictlyIncreasing(SeqsOf(delivered \o zbuf))
    /\ via = "proxyForChanges" => delivered \o zbuf = received

C13_Witness ==
  /\ feed = "ended"
  /\ via = "none"
  /\ Len(Events(received)) = 3
  /\ Len(delivered) = 2
  /\ delivered[1].seq = 1 /\ delivered[1].stub
  /\ delivered[2].seq = 3

\* ----------------------------------------------------------------- C14
\* the PurgeEntries of a document
EntriesFor(plog, d) ==
  Cardinality({i \in 1..Len(plog) : plog[i].doc = d})

\* the deletion stubs of a document in what a feed read delivered
StubsFor(out, d) ==
  Cardinality({i \in 1..Len(out) : out[i].doc = d /\ out[i].stub})

OfflineBulkRead ==
  /\ userCtx = "offline"
  /\ outcome = "filtered"
  /\ RanHandler("allDocsHandler") \/ RanHandler("bulkGetHandler")

\* C15: the answer to an offline user's bulk read of a key list has one row
\* per requested key, in the order of the request; the row of a key whose
\* document the user may see is the row of the backing store, unchanged, and
\* the row of any other key is a forbidden stub at the same position.
C15_BulkReadPositional ==
  OfflineBulkRead =>
    /\ Len(answer) = Len(keys)
    /\ \A i \in 1..Len(keys) :
         /\ answer[i].key = keys[i]
         /\ keys[i] \in visible => answer[i] = rows[i]
         /\ keys[i] \notin visible => answer[i].kind = "forbidden"

C15_Witness ==
  /\ OfflineBulkRead
  /\ keys = <<1, 2, 1>>
  /\ visible = {1}
  /\ rows[2].kind = "doc"
  /\ answer[1].kind = "doc"
  /\ answer[2].kind = "forbidden"
  /\ answer[3] = rows[3]

\* ----------------------------------------------------------------- C16
\* the entries of a sequence, as a set
Range(q) == {q[i] : i \in 1..Len(q)}

\* the call before the latest and the latest call
PrevCall == purgeCalls[1]

LastCall == purgeCalls[Len(purgeCalls)]

\* no purge was recorded between the last two calls
NoPurgeBetween == PrevCall.size = LastCall.size

C17_CheckpointInvalid ==
  \A i \in 1..Len(purgeCalls) :
    IF purgeCalls[i].cp \in 0..purgeCalls[i].size
      THEN purgeCalls[i].out.status = "ok"
      ELSE /\ purgeCalls[i].out.status = "CheckpointInvalid"
           /\ purgeCalls[i].out.next \notin 0..purgeCalls[i].size

C17_Witness ==
  /\ Len(purgeCalls) = 2
  /\ PrevCall.size = 1 /\ PrevCall.cp = 2
  /\ PrevCall.out.status = "CheckpointInvalid"
  /\ LastCall.size = 2 /\ LastCall.cp = 2
  /\ LastCall.out.status = "ok" /\ LastCall.out.entries = << >>

\* ----------------------------------------------------------------- C18
\* the facilities reachable from a set in at most n steps of the hierarchy
RECURSIVE ReachableWithin(_, _, _)
ReachableWithin(ch, S, n) ==
  IF n = 0 THEN S
  ELSE ReachableWithin(ch, S \cup UNION {ch[f] : f \in S}, n - 1)

\* the facilities reachable from the user's facilityId
Reachable(h) == ReachableWithin(h.children, {h.root}, MaxFacilities)

\* C18: over any facility hierarchy, cycles included, the traversal
\* terminates: it descends into a facility at most once, and what it has
\* popped and has left to pop never exceeds the start plus the children of
\* the facilities descended into; when it ends, a document is in the
\* VisibilitySet exactly when its owning facility is reachable from the
\* user's facilityId or the user owns it.
C18_VisibilityTraversal ==
  /\ trav.descents = Cardinality(trav.visited)
  /\ trav.descents <= MaxFacilities
  /\ trav.pops + Len(trav.stack) <= 1 + trav.descents * MaxFacilities
  /\ trav.phase = "done" =>
       \A d \in Docs :
         d \in trav.set <=> (Owner(d) \in Reachable(hier) \/ d \in hier.own)

C18_Witness ==
  /\ trav.phase = "done"
  /\ hier.root = 1
  /\ hier.children[1] = {2}
  /\ hier.children[2] = {1, 2}
  /\ hier.own = {}
  /\ trav.set = {1, 2}
  /\ trav.pops > trav.descents

\* ----------------------------------------------------------------- C19
\* C19: over any sequence of init() and validate() calls, settingsService.get
\* and validation.init are called by the first call and by no other, and
\* validation.init receives the fetched settings and the medic db handle.
C19_InitOnce ==
  IF calls = << >>
    THEN svc.settingsGet = << >> /\ svc.init = << >>
    ELSE /\ svc.settingsGet = <<1>>
         /\ svc.init = << [at |-> 1, settings |-> settings,
                           db |-> [medic |-> MedicDb]] >>

C19_Witness ==
  /\ Len(calls) = 3
  /\ calls[1].op = "validate"
  /\ calls[2].op = "init"
  /\ calls[3].op = "validate"
  /\ Len(svc.validate) = 2
  /\ Len(svc.init) = 1
  /\ settings = "the settings"

\* ----------------------------------------------------------------- C20
\* validation.validate was called by call number i
ValidatedAt(i) == \E j \in 1..Len(svc.validate) : svc.validate[j].at = i

\* C20: a validate(doc, config) call whose config has no validations, no
\* validations.list or an empty validations.list returns undefined and
\* does not call validation.validate.
C20_SkipWithoutRules ==
  \A i \in 1..Len(calls) :
    (/\ calls[i].op = "validate"
     /\ \/ ~calls[i].config.validations
        \/ ~calls[i].config.list
        \/ Len(calls[i].config.rules) = 0)
    => /\ ~calls[i].returned.defined
       /\ ~ValidatedAt(i)

C20_Witness ==
  /\ Len(calls) = 3
  /\ \A i \in 1..3 : calls[i].op = "validate"
  /\ ~calls[1].config.validations
  /\ calls[2].config.validations /\ ~calls[2].config.list
  /\ calls[3].config.list /\ calls[3].config.rules = << >>
  /\ svc.validate = << >>
  /\ svc.inited

\* ----------------------------------------------------------------- C21
\* the calls of validation.validate made by call number i
ValidatedBy(i) == {j \in 1..Len(svc.validate) : svc.validate[j].at = i}

\* C21: a validate(doc, config) call with a non-empty validations.list calls
\* validation.validate exactly once, with the doc and the list it was
\* given, and returns what validation.validate resolved to.
C21_ValidatePassesThrough ==
  \A i \in 1..Len(calls) :
    (/\ calls[i].op = "validate"
     /\ calls[i].config.validations
     /\ calls[i].config.list
     /\ Len(calls[i].config.rules) > 0)
    => /\ Cardinality(ValidatedBy(i)) = 1
       /\ \A j \in ValidatedBy(i) :
            /\ svc.validate[j].args.doc = calls[i].doc
            /\ svc.validate[j].args.list = calls[i].config.rules
            /\ calls[i].returned.defined
            /\ calls[i].returned.value = svc.validate[j].resolved

C21_Witness ==
  /\ Len(calls) = 2
  /\ calls[1].op = "validate" /\ calls[1].doc = 2
  /\ Len(calls[1].config.rules) = 2
  /\ calls[1].returned.value = << >>
  /\ calls[2].op = "validate" /\ calls[2].doc = 1
  /\ Len(calls[2].config.rules) = 1
  /\ calls[2].returned.value = <<"some errors">>
  /\ Len(svc.validate) = 2
  /\ Len(svc.init) = 1

\* ----------------------------------------------------------------- C22
\* the routes registered with postJson, putJson or deleteJson
JsonRoutes ==
  {j \in 1..Len(Routes) :
     \E k \in 1..Len(Routes[j].stack) :
       Routes[j].stack[k] = "handleJsonRequest"}

\* the request came to the route j
Reached(j) == Ran(Routes[j].line, Routes[j].stack[1])

HandlerInvoked(j) == Ran(Routes[j].line, LastOf(Routes[j].stack))

IsSessionRequest == url = <<"_session">>

\* C23 as stated: a request to /_session, with any method and from any user
\* class, never meets the offline-user firewall and is forwarded to the
\* backing store by the plain proxy; the userCtx cookie is set again on the
\* response exactly when the request carries a userCtx cookie (one with a
\* value).
C23_Original ==
  IsSessionRequest =>
    /\ ~RanHandler("offlineUserFirewall")
    /\ Answered =>
         /\ via = "proxy"
         /\ forwarded = (IF method \in WriteMethods THEN bodyDocs ELSE {})
         /\ cookieSet <=> cookie \notin {"undefined", "empty"}

\* a session request of an offline user whose userCtx cookie is no
\* percent-encoding: the handler throws, nothing is forwarded, no cookie set
C23_Witness ==
  /\ IsSessionRequest
  /\ session = "offline"
  /\ cookie = "malformed"
  /\ LastRan(405, "session")
  /\ outcome = "error"
  /\ via = "none"
  /\ ~cookieSet
  /\ reply.status = 500

\* ----------------------------------------------------------------- C24
\* the call made by this step, if it is a call
Called == Len(e2e'.ops) = Len(e2e.ops) + 1

NewOp == e2e'.ops[Len(e2e'.ops)]

\* C24: once an updateSettings has stored the original settings and no
\* revertSettings has completed successfully since, a further updateSettings
\* throws 'A previous test did not call revertSettings' and sends no
\* request; when no original settings are stored, revertSettings throws
\* 'No original settings to revert to' and sends no request.
C24_UpdateRevertAlternate ==
  [][Called =>
       /\ (NewOp.op = "update" /\ e2e.stored) =>
            /\ NewOp.phase = "thrown"
            /\ NewOp.error = "A previous test did not call revertSettings"
            /\ e2e'.requests = e2e.requests
       /\ (NewOp.op = "revert" /\ ~e2e.stored) =>
            /\ NewOp.phase = "thrown"
            /\ NewOp.error = "No original settings to revert to"
            /\ e2e'.requests = e2e.requests]_vars

C24_Witness ==
  /\ Len(e2e.ops) = 3
  /\ e2e.ops[1].op = "revert" /\ e2e.ops[1].phase = "thrown"
  /\ e2e.ops[2].op = "update" /\ e2e.ops[2].phase = "done"
  /\ e2e.ops[3].op = "update" /\ e2e.ops[3].phase = "thrown"
  /\ Len(e2e.requests) = 2

\* ----------------------------------------------------------------- C25
\* call number i went from one phase to another in this step
Went(i, name, from, to) ==
  /\ i \in 1..Len(e2e.ops)
  /\ e2e.ops[i].op = name
  /\ e2e.ops[i].phase = from
  /\ e2e'.ops[i].phase = to

\* the request sent by this step, if it sends one
Sent == Len(e2e'.requests) = Len(e2e.requests) + 1

NewRequest == e2e'.requests[Len(e2e'.requests)]

\* C25: the PUT of a revertSettings carries the settings the GET of the
\* updateSettings that stored them returned; the stored original is cleared
\* only by the fulfilment of a revert's PUT, and is unchanged when that PUT
\* is rejected; when the GET of an updateSettings is rejected nothing is
\* stored, and the PUT of the updates is sent only on the fulfilment of the
\* GET.
C25_RevertRestoresOriginal ==
  [][/\ (Sent /\ e2e'.ops[NewRequest.by].op = "revert") =>
          LET m == e2e'.ops[NewRequest.by].match IN
            /\ NewRequest.method = "PUT"
            /\ m \in 1..Len(e2e.ops)
            /\ e2e.ops[m].op = "update"
            /\ e2e.ops[m].phase \in {"put", "done", "putRejected"}
            /\ NewRequest.body = e2e.ops[m].got
     /\ (Truthy(e2e.original) /\ ~Truthy(e2e'.original)) =>
          \E i \in 1..Len(e2e.ops) : Went(i, "revert", "put", "done")
     /\ (\E i \in 1..Len(e2e.ops) : Went(i, "revert", "put", "putRejected"))
          => e2e'.original = e2e.original
     /\ (\E i \in 1..Len(e2e.ops) : Went(i, "update", "get", "getRejected"))
          => /\ e2e'.original = e2e.original
             /\ e2e'.requests = e2e.requests
     /\ (Sent /\ NewRequest.method = "PUT"
            /\ e2e'.ops[NewRequest.by].op = "update") =>
          Went(NewRequest.by, "update", "get", "put")]_vars

C25_Witness ==
  /\ Len(e2e.ops) = 3
  /\ e2e.ops[1].op = "update" /\ e2e.ops[1].phase = "done"
  /\ e2e.ops[2].op = "revert" /\ e2e.ops[2].phase = "putRejected"
  /\ e2e.ops[3].op = "revert" /\ e2e.ops[3].phase = "done"
  /\ e2e.server = InitialSettings
  /\ e2e.original.kind = "null"
  /\ Len(e2e.requests) = 4
  /\ e2e.requests[4].body = e2e.ops[1].got

\* ----------------------------------------------------------------- C26
\* C26 as stated: under any interleaving of updateSettings calls with the
\* settling of their requests, at most one updateSettings is accepted
\* between two successful reverts, and the stored original is the settings
\* as they were before the first accepted update.
C26_Original ==
  /\ e2e.accepted <= 1
  /\ Truthy(e2e.original) => e2e.original.value = e2e.baseline

\* two updateSettings calls were accepted, the second before the GET of the
\* first was settled; the original stored last holds the first's updates
C26_Witness ==
  /\ Len(e2e.ops) = 2
  /\ e2e.ops[1].op = "update" /\ e2e.ops[1].phase = "done"
  /\ e2e.ops[2].op = "update" /\ e2e.ops[2].phase = "put"
  /\ e2e.accepted = 2
  /\ e2e.baseline = InitialSettings
  /\ e2e.storedBy = 2
  /\ e2e.original.value = <<1>>

\* ----------------------------------------------------------------- C27
\* the chunks of a sequence, one after the other
RECURSIVE Concatenation(_)
Concatenation(chunks) ==
  IF chunks = << >> THEN << >>
  ELSE Head(chunks) \o Concatenation(Tail(chunks))

\* C27: for a backend response on proxyForAuth: when res.interceptResponse
\* is set, nothing of the upstream body is written to the client before the
\* upstream 'end', and on 'end' interceptResponse is called exactly once,
\* with the concatenation of the chunks received, in order of arrival; when
\* it is not set, the chunks are piped to the client as they arrive and
\* interceptResponse is never called.
C27_InterceptBuffersUntilEnd ==
  /\ hook.phase # "none" => via = "proxyForAuth"
  /\ hook.phase = "none" => hook.calls = << >> /\ delivered = << >>
  /\ (hook.phase # "none" /\ intercept) =>
       /\ delivered = << >>
       /\ hook.calls = (IF hook.phase = "ended"
                          THEN <<Concatenation(received)>> ELSE << >>)
  /\ (hook.phase # "none" /\ ~intercept) =>
       /\ delivered = received
       /\ hook.calls = << >>

C27_Witness ==
  /\ via = "proxyForAuth"
  /\ intercept
  /\ hook.phase = "ended"
  /\ received = << <<1, 2>>, <<2>>, <<1>> >>
  /\ hook.calls = << <<1, 2, 2, 1>> >>
  /\ delivered = << >>

\* ----------------------------------------------------------------- C28
\* the general write routes
EditLines == {854, 855, 856}

ReachedCanEdit == \E l \in EditLines : Ran(l, "canEdit")

\* C28: a PUT, POST or DELETE under the db prefix that reaches the general
\* write routes is forwarded, by proxyForAuth, only if auth.check resolved
\* with a context that has a user; when the check rejects or resolves
\* without a user the request is not forwarded and is answered
\* 'not-authorized'; online users and offline requests with the authorized
\* flag alike.
C28_CanEditGate ==
  /\ check # "none" <=> ReachedCanEdit
  /\ ReachedCanEdit =>
       /\ method \in WriteMethods
       /\ UnderDb(url)
       /\ userCtx = "offline" => authorized
       /\ IF check = "user"
            THEN /\ via = "proxyForAuth"
                 /\ forwarded = bodyDocs
            ELSE /\ via = "none"
                 /\ forwarded = {}
                 /\ outcome = "notAuthorized"

C28_Witness ==
  /\ ReachedCanEdit
  /\ userCtx = "offline"
  /\ authorized
  /\ method = "DELETE"
  /\ check = "nouser"
  /\ outcome = "notAuthorized"

\* ---------------------------------------------------------------- C29
\* a response of the backing store has come back through the plain proxy
ThroughProxy == via = "proxy" /\ outcome \in {"backendOk", "backendError"}

\* the request url lies under the app prefix
UnderAppPrefix(p) == HasPrefix(p, AppPrefix) /\ Len(p) > Len(AppPrefix)

\* C29: through the plain proxy the status is rewritten in one case only:
\* upstream 401, a human client and a non-static url under the app prefix
\* give 302 with Location set to the login redirect; upstream 401 with a
\* non-human client keeps 401 with the basic-auth challenge; in every other
\* case the status is the upstream one and WWW-Authenticate is 'Cookie'
C29_Original ==
  ThroughProxy =>
    IF reply.upstream = 401 /\ reply.human
         /\ ~StaticResources(url) /\ UnderAppPrefix(url)
      THEN reply.status = 302 /\ reply.location = LoginRedirect(url)
      ELSE IF reply.upstream = 401 /\ ~reply.human
        THEN reply.status = 401
               /\ reply.wwwAuthenticate = "MEDIC_BASIC_AUTH"
        ELSE reply.status = reply.upstream
               /\ reply.wwwAuthenticate = "Cookie"

\* a human client's 401 on a url that only contains the app prefix has been
\* answered with the login redirect
C29_Witness ==
  /\ ThroughProxy
  /\ reply.upstream = 401 /\ reply.human
  /\ ~UnderAppPrefix(url) /\ ContainsAppPrefix(url)
  /\ reply.status = 302
  /\ reply.location = LoginRedirect(url)

\* ---------------------------------------------------------------- C30
\* the modules exec:apply-patches patches
PatchedModules == {Patches[i] : i \in DOMAIN Patches}

\* install-dependencies has succeeded and exec:undo-patches was run after it
InstalledThenUndone ==
  /\ build.queue = << >>
  /\ Len(build.history) >= 2
  /\ build.history[Len(build.history) - 1] =
       [task |-> "install-dependencies", ok |-> TRUE]
  /\ build.history[Len(build.history)] =
       [task |-> "exec:undo-patches", ok |-> TRUE]

\* C30: the modules patched, the modules backed up and the modules restored
\* are the same set, so that install-dependencies followed by undo-patches
\* leaves every patched module replaced by its unpatched backup
C30_Original ==
  InstalledThenUndone =>
    /\ PatchedModules = LibrariesToPatch
    /\ PatchedModules = ModulesToPatch
    /\ \A m \in PatchedModules :
         build.modules[m] = "clean" /\ build.backup[m] = "absent"

\* after install-dependencies and undo-patches pouchdb-browser, which has
\* no backup, and messageformat, which is not restored, are still patched
C30_Witness ==
  /\ InstalledThenUndone
  /\ build.modules["pouchdb-browser"] = "patched"
  /\ build.backup["pouchdb-browser"] = "absent"
  /\ build.modules["messageformat"] = "patched"
  /\ build.backup["messageformat"] = "clean"
  /\ \A m \in LibrariesToPatch \cap ModulesToPatch :
       build.modules[m] = "clean" /\ build.backup[m] = "absent"

====
